---- MODULE Spec2Model ----
(***************************************************************************)
(* Model of the PHREEQC agent: the orchestration loop run_agent            *)
(* (agent/agent.py), the path validator BaseTool.validate_path             *)
(* (agent/tools/base_tool.py) and the registered tools (agent/tools/*.py). *)
(*                                                                         *)
(* Conventions.                                                            *)
(*   - Python None is the value None; `x or d` is Or(x, d).                *)
(*   - A path string is a record [abs, parts]: whether it starts with "/"  *)
(*     and its "/"-separated components.  An absolute, normalised path is  *)
(*     the sequence of its components (<<>> is "/").                       *)
(*   - A text that the code searches or splits (error messages, file       *)
(*     contents) is a sequence of one-character strings.                   *)
(*   - The filesystem is a function from the real location of every        *)
(*     existing node to the node (directory, file or symbolic link).       *)
(***************************************************************************)
EXTENDS Integers, Sequences, FiniteSets, TLC

VARIABLES
    pc,            \* position of run_agent (or "tools" in SpecTools)
    allowed_root,  \* BaseTool.allowed_root: <<>> when None, else <<root>>
    fs,            \* the filesystem
    max_steps,     \* run_agent's step budget
    messages,      \* the conversation
    log,           \* the records of the audit file log_path
    step,          \* loop variable of the round loop
    attempt,       \* loop variable of the retry loop
    response,      \* the reply (or the error) of the last model-service call
    first_tc,      \* the retained tool call of the round, None when absent
    result,        \* the ToolResult of the round
    retval,        \* what run_agent returned or raised
    delays,        \* history: the time.sleep() delays taken in this round
    ncalls,        \* history: model-service calls made in this run
    executed,      \* history: the tool.run invocations of this run
    accessed,      \* history: the filesystem accesses made by tools
    busy,          \* history: what is in progress (model queries, tool runs)
    futures,       \* batch harness: the state of every submitted question
    workers,       \* batch harness: the worker processes of the pool
    tool_objs,     \* the tool objects of the registry, in registry order
    tool_specs,    \* the declarations sent to the model service
    now,           \* the clock, in whole seconds
    log_paths      \* history: the audit file of every run started

vars == <<pc, allowed_root, fs, max_steps, messages, log, step, attempt,
          response, first_tc, result, retval, delays, ncalls, executed,
          accessed, busy, futures, workers, tool_objs, tool_specs, now,
          log_paths>>

None == "<None>"

Or(x, d) == IF x = None \/ x = "" THEN d ELSE x

Last(s) == s[Len(s)]

IsPrefix(s, t) == Len(s) <= Len(t) /\ SubSeq(t, 1, Len(s)) = s

(***************************************************************************)
(* Paths and the filesystem                                                *)
(***************************************************************************)
P(isabs, parts) == [abs |-> isabs, parts |-> parts]

\* os.path.join(root, path): an absolute second argument replaces the first.
PathJoin(root, path) == IF path.abs THEN path.parts ELSE root \o path.parts

\* os.path.abspath of an absolute path = os.path.normpath: "." is dropped
\* and ".." removes the component before it, lexically ("/.." is "/").
RECURSIVE NormFrom(_, _)
NormFrom(acc, rest) ==
    IF rest = <<>> THEN acc
    ELSE LET c == Head(rest) IN
         IF c = "." THEN NormFrom(acc, Tail(rest))
         ELSE IF c = ".."
              THEN NormFrom(IF acc = <<>> THEN acc
                            ELSE SubSeq(acc, 1, Len(acc) - 1), Tail(rest))
              ELSE NormFrom(Append(acc, c), Tail(rest))

abspath(parts) == NormFrom(<<>>, parts)

\* os.path.commonpath of two absolute normalised paths.
RECURSIVE commonpath(_, _)
commonpath(a, b) ==
    IF a = <<>> \/ b = <<>> \/ Head(a) # Head(b) THEN <<>>
    ELSE <<Head(a)>> \o commonpath(Tail(a), Tail(b))

dirname(p) == IF p = <<>> THEN p ELSE SubSeq(p, 1, Len(p) - 1)

Dir == [kind |-> "dir", content |-> <<>>, target |-> <<>>]
File(text) == [kind |-> "file", content |-> text, target |-> <<>>]
Link(to) == [kind |-> "link", content |-> <<>>, target |-> to]

\* The real location the operating system reaches for an absolute path:
\* every symbolic link met on the way is followed (targets are absolute).
\* The filesystems of this model hold no cycle of links.
RECURSIVE Walk(_, _, _)
Walk(f, cur, rest) ==
    IF rest = <<>> THEN cur
    ELSE LET next == Append(cur, Head(rest)) IN
         IF next \in DOMAIN f /\ f[next].kind = "link"
         THEN Walk(f, <<>>, f[next].target \o Tail(rest))
         ELSE Walk(f, next, Tail(rest))

realpath(f, p) == Walk(f, <<>>, p)

isdir(f, p) == LET r == realpath(f, p) IN r \in DOMAIN f /\ f[r].kind = "dir"
isfile(f, p) == LET r == realpath(f, p) IN r \in DOMAIN f /\ f[r].kind = "file"
exists(f, p) == realpath(f, p) \in DOMAIN f

\* os.listdir: the names directly under a directory.
listdir(f, p) ==
    LET r == realpath(f, p) IN
    {q[Len(q)] : q \in {x \in DOMAIN f : Len(x) = Len(r) + 1 /\ IsPrefix(r, x)}}

Put(f, loc, node) == [x \in DOMAIN f \cup {loc} |-> IF x = loc THEN node ELSE f[x]]

Acc(op, loc) == [op |-> op, loc |-> loc]

(***************************************************************************)
(* BaseTool.validate_path                                                  *)
(***************************************************************************)
Raise(type, msg) == [raised |-> TRUE, type |-> type, msg |-> msg]

validate_path(root_opt, path) ==
    IF root_opt = <<>>
    THEN Raise("ValueError", "allowed_root not set in BaseTool")
    ELSE LET root == abspath(root_opt[1])
             abs_path == abspath(PathJoin(root, path))
             common == commonpath(root, abs_path)
         IN  IF common # root
             THEN Raise("ValueError", "Disallowed path")
             ELSE [raised |-> FALSE, path |-> abs_path]

(***************************************************************************)
(* Texts                                                                   *)
(***************************************************************************)
\* A piece of text is one character, or Run, which stands for MAX_CHARS
\* consecutive letters "x"; len(text) is the number of characters.
MAX_CHARS == 20000
PREVIEW_LINES == 80

Run == "x * MAX_CHARS"

len(text) ==
    Len(text) + (MAX_CHARS - 1) * Cardinality({i \in 1..Len(text) : text[i] = Run})

\* open(..., "r"): universal newlines, "\r\n" and "\r" are read as "\n".
RECURSIVE TranslateFrom(_)
TranslateFrom(text) ==
    IF text = <<>> THEN <<>>
    ELSE IF Head(text) = "\r"
         THEN <<"\n">> \o TranslateFrom(IF Len(text) >= 2 /\ text[2] = "\n"
                                        THEN Tail(Tail(text)) ELSE Tail(text))
         ELSE <<Head(text)>> \o TranslateFrom(Tail(text))

universal_newlines(text) ==
    IF \A i \in 1..Len(text) : text[i] # "\r" THEN text ELSE TranslateFrom(text)

\* os.linesep of the platform the agent is configured for (macOS paths).
linesep == <<"\n">>

\* Path.write_text: text mode, every "\n" is written as os.linesep.
RECURSIVE WriteFrom(_)
WriteFrom(text) ==
    IF text = <<>> THEN <<>>
    ELSE (IF Head(text) = "\n" THEN linesep ELSE <<Head(text)>>) \o WriteFrom(Tail(text))

write_text(text) == IF linesep = <<"\n">> THEN text ELSE WriteFrom(text)

Abs(n) == IF n < 0 THEN 0 - n ELSE n

\* The text cut after every newline character: cut after the newline
\* nearest to the middle, then cut both parts.
RECURSIVE LinesOf(_)
LinesOf(text) ==
    LET n == Len(text)
        cuts == {i \in 1..(n - 1) : text[i] = "\n"}
    IN  IF cuts = {} THEN (IF n = 0 THEN <<>> ELSE <<text>>)
        ELSE LET m == CHOOSE i \in cuts : \A j \in cuts : Abs(2 * i - n) <= Abs(2 * j - n)
             IN  LinesOf(SubSeq(text, 1, m)) \o LinesOf(SubSeq(text, m + 1, n))

\* f.readlines()
readlines(text) == LinesOf(universal_newlines(text))

\* "".join(lines)
RECURSIVE join(_)
join(lines) ==
    IF lines = <<>> THEN <<>>
    ELSE IF Len(lines) = 1 THEN lines[1]
    ELSE LET m == Len(lines) \div 2
         IN  join(SubSeq(lines, 1, m)) \o join(SubSeq(lines, m + 1, Len(lines)))

Max(a, b) == IF a >= b THEN a ELSE b
Min(a, b) == IF a <= b THEN a ELSE b

\* Python's s[i:j] for integers i, j (a negative index counts from the end).
PySlice(s, i, j) ==
    LET n == Len(s)
        lo == IF i < 0 THEN Max(i + n, 0) ELSE Min(i, n)
        hi == IF j < 0 THEN Max(j + n, 0) ELSE Min(j, n)
    IN  SubSeq(s, lo + 1, hi)

\* Python's `x or d` for an optional integer.
OrInt(x, d) == IF x = <<>> \/ x = <<0>> THEN d ELSE x[1]

(***************************************************************************)
(* The tools.  An argument object is a function from keyword to value; a   *)
(* tool run yields [out, fs, acc]: what run returned or raised, the        *)
(* filesystem it leaves and the accesses it made.                          *)
(***************************************************************************)
Done(out, f, acc) == [out |-> out, fs |-> f, acc |-> acc]

Error(text) == [ok |-> FALSE, error |-> text]

ErrorOf_as_success(exc) == [ok |-> TRUE, error |-> <<exc.type, exc.msg>>]

\* "{type(e).__name__}: {e}"
ErrorOf(exc) == Error(<<exc.type, exc.msg>>)

Arg(args, key) == IF key \in DOMAIN args THEN <<args[key]>> ELSE <<>>

fits_below(full_content) == len(full_content) < MAX_CHARS

\* if len(full_content) <= MAX_CHARS
fits(full_content) == len(full_content) <= MAX_CHARS

\* ReadFileTool.run(path, start_line=None, end_line=None)
ReadFileRun(root_opt, f, args) ==
    LET v == validate_path(root_opt, args["path"]) IN
    IF v.raised THEN Done(ErrorOf(v), f, {})
    ELSE
    LET safe_path == v.path
        loc == realpath(f, safe_path)
    IN
    IF loc \notin DOMAIN f
    THEN Done(ErrorOf(Raise("FileNotFoundError", "No such file or directory")), f, {})
    ELSE IF f[loc].kind # "file"
    THEN Done(ErrorOf(Raise("IsADirectoryError", "Is a directory")), f, {})
    ELSE
    LET lines == readlines(f[loc].content)
        total_lines == Len(lines)
        start_line == Arg(args, "start_line")
        end_line == Arg(args, "end_line")
        acc == {Acc("read", loc)}
    IN
    IF start_line # <<>> \/ end_line # <<>>
    THEN LET s == Max(1, OrInt(start_line, 1))
             e == Min(total_lines, OrInt(end_line, total_lines))
             selected == PySlice(lines, s - 1, e)
         IN  Done([ok |-> TRUE, total_lines |-> total_lines,
                   showing |-> <<s, e>>, content |-> join(selected)], f, acc)
    ELSE LET full_content == join(lines) IN
         IF fits(full_content)
         THEN Done([ok |-> TRUE, total_lines |-> total_lines,
                    content |-> full_content], f, acc)
         ELSE Done([ok |-> TRUE, total_lines |-> total_lines, truncated |-> TRUE,
                    head |-> join(PySlice(lines, 0, PREVIEW_LINES)),
                    tail |-> join(PySlice(lines, 0 - PREVIEW_LINES, total_lines)),
                    message |-> <<"File has", total_lines, "lines; showing first and last",
                                  PREVIEW_LINES>>], f, acc)

\* os.makedirs(p, exist_ok=True): yields [raised, fs, acc].
RECURSIVE makedirs(_, _)
makedirs(f, p) ==
    IF exists(f, p)
    THEN IF isdir(f, p)
         THEN [raised |-> FALSE, fs |-> f, acc |-> {}]
         ELSE [raised |-> TRUE, fs |-> f, acc |-> {}]
    ELSE LET up == makedirs(f, dirname(p)) IN
         IF up.raised THEN up
         ELSE LET loc == realpath(up.fs, p) IN
              [raised |-> FALSE, fs |-> Put(up.fs, loc, Dir),
               acc |-> up.acc \cup {Acc("mkdir", loc)}]

\* WriteFileTool.run(path, new_content)
WriteFileRun(root_opt, f, args) ==
    LET v == validate_path(root_opt, args["path"]) IN
    IF v.raised THEN Done(v, f, {})
    ELSE
    LET safe_base_path == v.path
        md == makedirs(f, dirname(safe_base_path))
    IN
    IF md.raised
    THEN Done(Raise("FileExistsError", "File exists"), md.fs, md.acc)
    ELSE
    LET loc == realpath(md.fs, safe_base_path) IN
    IF loc \in DOMAIN md.fs /\ md.fs[loc].kind # "file"
    THEN Done(Error(<<"Failed to write file", "IsADirectoryError">>), md.fs, md.acc)
    ELSE Done([ok |-> TRUE,
               message |-> <<"File content successfully written to", safe_base_path>>],
              Put(md.fs, loc, File(write_text(args["new_content"]))),
              md.acc \cup {Acc("write", loc)})

\* ListFileTool.run(path)
ListFileRun(root_opt, f, args) ==
    LET v == validate_path(root_opt, args["path"]) IN
    IF v.raised THEN Done(ErrorOf(v), f, {})
    ELSE
    LET safe_path == v.path IN
    IF ~isdir(f, safe_path)
    THEN Done(Error(<<"NotADirectoryError", "is not a directory">>), f, {})
    ELSE Done([ok |-> TRUE, path |-> safe_path, items |-> listdir(f, safe_path)],
              f, {Acc("list", realpath(f, safe_path))})

\* ExecutePHREEQCTool: the configured binary and database.
PHREEQC_BIN == <<"phreeqc">>
DEFAULT_DB == <<"phreeqc.dat">>

Whitespace == {" ", "\t", "\n", "\r"}

Letters ==
    { "a", "b", "c", "d", "e", "f", "g", "h", "i", "j", "k", "l", "m", "n", "o", "p", "q", "r", "s", "t", "u", "v", "w", "x", "y", "z",
      "A", "B", "C", "D", "E", "F", "G", "H", "I", "J", "K", "L", "M", "N", "O", "P", "Q", "R", "S", "T", "U", "V", "W", "X", "Y", "Z" }

\* str.strip()
RECURSIVE lstrip(_)
lstrip(s) == IF s # <<>> /\ Head(s) \in Whitespace THEN lstrip(Tail(s)) ELSE s

RECURSIVE rstripOf(_, _)
rstripOf(s, chars) ==
    IF s # <<>> /\ s[Len(s)] \in chars THEN rstripOf(SubSeq(s, 1, Len(s) - 1), chars) ELSE s

strip(s) == rstripOf(lstrip(s), Whitespace)

AllIn(s, from, to, chars) == \A i \in from..to : s[i] \in chars

\* re.match(r"^-{3,}$", s)
IsDashes(s) == Len(s) >= 3 /\ AllIn(s, 1, Len(s), {"-"})

\* s[from..] matches \s*-{3,}\s*$
TailMatches(s, from) ==
    \E i \in from..Len(s), j \in from..Len(s) :
        /\ i + 2 <= j
        /\ AllIn(s, from, i - 1, Whitespace)
        /\ AllIn(s, i, j, {"-"})
        /\ AllIn(s, j + 1, Len(s), Whitespace)

\* re.match(r"^-{3,}\s*([A-Za-z].+?)\s*-{3,}\s*$", s): <<>> when there is no
\* match, else <<group(1)>>.  The label starts at the first character after
\* the leading dashes and blanks, which must be a letter, and is the shortest
\* run of two or more characters that leaves a closing run of dashes.
EmbeddedLabel(s) ==
    LET starts == {a \in 4..Len(s) :
                      /\ \E d \in 3..(a - 1) :
                            /\ AllIn(s, 1, d, {"-"})
                            /\ AllIn(s, d + 1, a - 1, Whitespace)
                      /\ s[a] \in Letters}
    IN  IF starts = {} THEN <<>>
        ELSE LET a == CHOOSE x \in starts : \A y \in starts : x <= y
                 ends == {e \in (a + 1)..Len(s) :
                             /\ \A k \in (a + 1)..e : s[k] # "\n"
                             /\ TailMatches(s, e + 1)}
             IN  IF ends = {} THEN <<>>
                 ELSE LET e == CHOOSE x \in ends : \A y \in ends : x <= y
                      IN  <<SubSeq(s, a, e)>>

\* ExecutePHREEQCTool._build_toc over the lines of result.out: the loop
\* state is (toc, prev_dashes_line).
RECURSIVE TocFrom(_, _, _, _)
TocFrom(lines, lineno, prev_dashes_line, toc) ==
    IF lineno > Len(lines) THEN toc
    ELSE LET stripped == strip(lines[lineno])
             m == EmbeddedLabel(stripped)
         IN  IF stripped = <<>>
             THEN TocFrom(lines, lineno + 1, prev_dashes_line, toc)
             ELSE IF m # <<>>
             THEN TocFrom(lines, lineno + 1, 0,
                          Append(toc, [line |-> lineno, section |-> strip(m[1])]))
             ELSE IF IsDashes(stripped)
             THEN TocFrom(lines, lineno + 1, lineno, toc)
             ELSE IF prev_dashes_line # 0
             THEN TocFrom(lines, lineno + 1, 0,
                          Append(toc, [line |-> lineno, section |-> rstripOf(stripped, {"."})]))
             ELSE TocFrom(lines, lineno + 1, 0, toc)

build_toc_zero_based(f, filepath) ==
    IF isfile(f, filepath)
    THEN LET toc == TocFrom(readlines(f[realpath(f, filepath)].content), 1, 0, <<>>)
         IN  [k \in 1..Len(toc) |-> [line |-> toc[k].line - 1, section |-> toc[k].section]]
    ELSE <<>>

\* enumerate(f, 1): the lines of the file, numbered from 1.
build_toc(f, filepath) ==
    IF isfile(f, filepath)
    THEN TocFrom(readlines(f[realpath(f, filepath)].content), 1, 0, <<>>)
    ELSE <<>>

\* What the external process may do: its exit code, what it printed and the
\* text it left in result.out (<<>> when it wrote none).
OutText == <<"-", "-", "-", "\n", "S", "I", ".", "\n">>

Procs == [returncode : {0, 1}, stdout : {<<"o", "k">>}, stderr : {<<>>},
          out : {<<>>, <<OutText>>}]

\* Only execute_phreeqc starts a process.
ProcsOf(name) == IF name = "execute_phreeqc" THEN Procs ELSE {CHOOSE p \in Procs : TRUE}

\* ExecutePHREEQCTool._collect_output_files
collect_output_files(root_opt, f, workdir, before) ==
    LET root == root_opt[1]
        new_files == listdir(f, workdir) \ before
    IN  { IF IsPrefix(root, Append(workdir, name))
          THEN P(FALSE, SubSeq(Append(workdir, name), Len(root) + 1, Len(workdir) + 1))
          ELSE P(TRUE, Append(workdir, name)) :
          name \in {x \in new_files : isfile(f, Append(workdir, x))} }

missing_binary_only(f) ==
    IF ~isfile(f, PHREEQC_BIN) THEN <<Error(<<"PHREEQC binary not found">>)>> ELSE <<>>

\* The two os.path.isfile checks run starts with: <<the error result>> when
\* one fails, <<>> when both pass.
missing_precondition(f) ==
    IF ~isfile(f, PHREEQC_BIN) THEN <<Error(<<"PHREEQC binary not found">>)>>
    ELSE IF ~isfile(f, DEFAULT_DB) THEN <<Error(<<"PHREEQC database not found">>)>>
    ELSE <<>>

\* ExecutePHREEQCTool.run(input_path)
ExecutePHREEQCRun(root_opt, f, args, proc) ==
    IF missing_precondition(f) # <<>>
    THEN Done(missing_precondition(f)[1], f, {})
    ELSE
    LET v == validate_path(root_opt, args["input_path"]) IN
    IF v.raised THEN Done(ErrorOf(v), f, {})
    ELSE
    LET in_path == v.path IN
    IF ~exists(f, in_path)
    THEN Done(Error(<<"Input file not found">>), f, {})
    ELSE
    LET workdir == dirname(in_path)
        out_file == Append(workdir, "result.out")
    IN
    IF ~isdir(f, workdir)
    THEN Done(ErrorOf(Raise("NotADirectoryError", "Not a directory")), f, {})
    ELSE
    LET files_before == listdir(f, workdir)
        out_loc == realpath(f, out_file)
        writes == proc.out # <<>> /\ ~(out_loc \in DOMAIN f /\ f[out_loc].kind = "dir")
        after == IF writes THEN Put(f, out_loc, File(proc.out[1])) ELSE f
        acc == {Acc("list", realpath(f, workdir)), Acc("exec", realpath(f, in_path))}
               \cup (IF writes THEN {Acc("write", out_loc)} ELSE {})
    IN  Done([ok |-> proc.returncode = 0,
              returncode |-> proc.returncode,
              stdout |-> PySlice(proc.stdout, 0 - 4000, Len(proc.stdout)),
              stderr |-> PySlice(proc.stderr, 0 - 4000, Len(proc.stderr)),
              output_files |-> collect_output_files(root_opt, after, workdir, files_before),
              result_out_toc |-> IF exists(after, out_file) THEN build_toc(after, out_file) ELSE <<>>,
              hint |-> "Use read_file with start_line/end_line"],
             after, acc)

\* The parameters each tool's run accepts: all of them, and those without a
\* default.
Accepted(name) ==
    CASE name = "read_file" -> {"path", "start_line", "end_line"}
      [] name = "write_file" -> {"path", "new_content"}
      [] name = "list_file" -> {"path"}
      [] name = "execute_phreeqc" -> {"input_path"}

Required(name) ==
    CASE name = "read_file" -> {"path"}
      [] name = "write_file" -> {"path", "new_content"}
      [] name = "list_file" -> {"path"}
      [] name = "execute_phreeqc" -> {"input_path"}

\* tool.run(**tool_args) for the tool registered under name.
RunTool(name, root_opt, f, args, proc) ==
    IF ~(DOMAIN args \subseteq Accepted(name) /\ Required(name) \subseteq DOMAIN args)
    THEN Done(Raise("TypeError", "run() got unexpected or missing arguments"), f, {})
    ELSE CASE name = "read_file" -> ReadFileRun(root_opt, f, args)
           [] name = "write_file" -> WriteFileRun(root_opt, f, args)
           [] name = "list_file" -> ListFileRun(root_opt, f, args)
           [] name = "execute_phreeqc" -> ExecutePHREEQCRun(root_opt, f, args, proc)

Raised(out) == "raised" \in DOMAIN out

(***************************************************************************)
(* The model service and what it can answer                                *)
(***************************************************************************)
MODEL == "gpt-5.2"
SYSTEM_PROMPT == "system prompt"
WORKSPACE_ROOT == <<"ws">>

\* TOOLS: the registry, name -> tool.
TOOLS == {"read_file", "write_file", "execute_phreeqc", "list_file"}

MaxBudget == 2     \* largest step budget tried
MaxExtra == 1      \* most tool calls proposed beyond the first one

\* Argument texts the model may send, and what json.loads makes of each.
ArgText ==
    [ write |-> "{\"path\": \"f\", \"new_content\": \"hi\"}",
      escape |-> "{\"path\": \"../out/f\", \"new_content\": \"hi\"}",
      extra |-> "{\"path\": \"d/f\", \"new_content\": \"x\"}",
      read |-> "{\"path\": \"f\"}",
      list |-> "{\"path\": \".\"}",
      link |-> "{\"path\": \"lnk/f\"}",
      exec |-> "{\"input_path\": \"f\"}",
      broken |-> "{\"path\": ",
      array |-> "[\"f\"]",
      null |-> "null",
      string |-> "\"f\"",
      number |-> "7" ]

Decoded(type, val) == [raised |-> FALSE, type |-> type, val |-> val]

json_loads(text) ==
    CASE text = ArgText.write  -> Decoded("dict", [path |-> P(FALSE, <<"f">>), new_content |-> <<"h", "i">>])
      [] text = ArgText.escape -> Decoded("dict", [path |-> P(FALSE, <<"..", "out", "f">>), new_content |-> <<"h", "i">>])
      [] text = ArgText.extra  -> Decoded("dict", [path |-> P(FALSE, <<"d", "f">>), new_content |-> <<"x">>])
      [] text = ArgText.read   -> Decoded("dict", [path |-> P(FALSE, <<"f">>)])
      [] text = ArgText.list   -> Decoded("dict", [path |-> P(FALSE, <<".">>)])
      [] text = ArgText.link   -> Decoded("dict", [path |-> P(FALSE, <<"lnk", "f">>)])
      [] text = ArgText.exec   -> Decoded("dict", [input_path |-> P(FALSE, <<"f">>)])
      [] text = "{}"     -> Decoded("dict", <<>>)
      [] text = ArgText.array  -> Decoded("list", <<"f">>)
      [] text = ArgText.null   -> Decoded("NoneType", <<>>)
      [] text = ArgText.string -> Decoded("str", <<"f">>)
      [] text = ArgText.number -> Decoded("int", <<7>>)
      [] OTHER           -> Raise("JSONDecodeError", "Expecting value")

\* json.dumps(result): the text of a value, kept apart from the value.
json_dumps(val) == [json |-> val]

is_dict_or_null(decoded) == decoded.type \in {"dict", "NoneType"}

\* isinstance(tool_args, dict)
is_dict(decoded) == decoded.type = "dict"

CallId(i) == <<"call", i>>

ToolCall(id, name, arguments) == [id |-> id, name |-> name, arguments |-> arguments]

FirstCalls ==
    { ToolCall(CallId(1), "write_file", ArgText.write),
      ToolCall(CallId(1), "write_file", ArgText.escape),
      ToolCall(CallId(1), "read_file", ArgText.read),
      ToolCall(CallId(1), "read_file", ArgText.link),
      ToolCall(CallId(1), "list_file", None),
      ToolCall(CallId(1), "execute_phreeqc", ArgText.exec),
      ToolCall(CallId(1), "delete_file", ArgText.read),
      ToolCall(CallId(1), "read_file", ArgText.broken),
      ToolCall(CallId(1), "write_file", ArgText.array),
      ToolCall(CallId(1), "list_file", ArgText.null),
      ToolCall(CallId(1), "read_file", ArgText.string),
      ToolCall(CallId(1), "execute_phreeqc", ArgText.number) }

ExtraCall(i) == ToolCall(CallId(1 + i), "write_file", ArgText.extra)

Contents == {None, "text"}

Replies ==
    [content : Contents, tool_calls : {<<>>}]
    \cup { [content |-> None,
            tool_calls |-> <<c>> \o [i \in 1..n |-> ExtraCall(i)]] :
           c \in FirstCalls, n \in 0..MaxExtra }

\* Failures of client.chat.completions.create: exception type and str(e).
ApiErrors ==
    { [type |-> "RateLimitError", msg |-> <<"4", "2", "9", " ", "s", "l", "o", "w">>],
      [type |-> "APITimeoutError", msg |-> <<"t", "i", "m", "e", "o", "u", "t">>],
      [type |-> "AuthenticationError", msg |-> <<"4", "0", "1", " ", "k", "e", "y">>],
      [type |-> "AuthenticationError", msg |-> <<"4", "0", "1", " ", "i", "d", "5", "0", "0", "3">>] }

Markers ==
    { <<"4", "2", "9">>, <<"5", "0", "0">>, <<"5", "0", "2">>, <<"5", "0", "3">>,
      <<"t", "i", "m", "e", "o", "u", "t">>,
      <<"c", "o", "n", "n", "e", "c", "t", "i", "o", "n">> }

\* Python's `k in s` for strings.
Contains(s, k) == \E i \in 1..(Len(s) - Len(k) + 1) : SubSeq(s, i, i + Len(k) - 1) = k

is_transient(err_str) == \E k \in Markers : Contains(err_str, k)

RECURSIVE Pow2(_)
Pow2(n) == IF n = 0 THEN 1 ELSE 2 * Pow2(n - 1)

(***************************************************************************)
(* Tool declarations.  A Python dict is the sequence of its <<key, value>> *)
(* pairs in insertion order; a tool object is a record of its class        *)
(* attributes.                                                             *)
(***************************************************************************)
\* d.get(k): <<>> when the key is absent, else <<value>>.
Get(d, k) ==
    LET at == {i \in 1..Len(d) : d[i][1] = k} IN
    IF at = {} THEN <<>> ELSE <<d[CHOOSE i \in at : TRUE][2]>>

\* list(d.keys())
Keys(d) == [i \in 1..Len(d) |-> d[i][1]]

\* TOOLS.values(): the registered tool objects (name, description,
\* parameters) of read_file, write_file, execute_phreeqc and list_file.
TOOLS_values ==
    << [name |-> "read_file",
        description |-> "Read a file in the workspace.",
        parameters |->
           << <<"type", "object">>,
              <<"properties",
                << <<"path", << <<"type", "string">>,
                                <<"description", "Path to the file to read.">> >> >>,
                   <<"start_line", << <<"type", "integer">>,
                                      <<"description", "First line to read (1-based, inclusive). Optional.">> >> >>,
                   <<"end_line", << <<"type", "integer">>,
                                    <<"description", "Last line to read (1-based, inclusive). Optional.">> >> >> >> >>,
              <<"required", <<"path">> >> >>],
       [name |-> "write_file",
        description |-> "Create a new text file or fully overwrite an existing one with the provided content. ",
        parameters |-> << <<"path", "Target file path">>,
                          <<"new_content", "Full file content">> >>],
       [name |-> "execute_phreeqc",
        description |-> "Run PHREEQC on an input file.",
        parameters |-> << <<"input_path", "Path to the PHREEQC input file (e.g., inputs/example2.in.txt).">> >>],
       [name |-> "list_file",
        description |-> "List files and directories within the allowed workspace.",
        parameters |-> << <<"path", "Directory path to list.">> >>] >>

\* _tool_spec
tool_spec(tool_obj) ==
    LET params == IF "parameters" \in DOMAIN tool_obj THEN tool_obj.parameters ELSE <<>>
        spec_params ==
            \* isinstance(params, dict) and params.get("type")
            IF Get(params, "type") \notin {<<>>, <<"">>}
            THEN params
            ELSE << <<"type", "object">>,
                    <<"properties",
                      [i \in 1..Len(params) |->
                          <<params[i][1], << <<"type", "string">>,
                                             <<"description", params[i][2]>> >> >>]>>,
                    <<"required", Keys(params)>> >>
    IN  << <<"type", "function">>,
           <<"function", << <<"name", tool_obj.name>>,
                            <<"description", tool_obj.description>>,
                            <<"parameters", spec_params>> >> >> >>

(***************************************************************************)
(* run_agent                                                               *)
(***************************************************************************)
SENTINEL == "Reached max_steps without a final answer. Try rephrasing or increasing max_steps."

Msg(role, content) == [role |-> role, content |-> content]

tool_call_payload_renumbered(tc) ==
    [id |-> <<tc.id[1], tc.id[2] + 1>>, type |-> "function",
     function |-> [name |-> tc.name, arguments |-> Or(tc.arguments, "{}")]]

\* _tool_call_payload
tool_call_payload(tc) ==
    [id |-> tc.id, type |-> "function",
     function |-> [name |-> tc.name, arguments |-> Or(tc.arguments, "{}")]]

first_of_last(tool_calls) == IF tool_calls # <<>> THEN <<Last(tool_calls)>> ELSE <<>>

\* first_tc = tool_calls[0] if tool_calls else None
first_of(tool_calls) == IF tool_calls # <<>> THEN <<tool_calls[1]>> ELSE <<>>

final_answer_raw(assistant_msg) == assistant_msg.content

\* The final answer returned for a reply without a tool call.
final_answer(assistant_msg) == Or(assistant_msg.content, "")

with_system_if_empty(msgs) ==
    IF msgs = <<>> THEN <<Msg("system", SYSTEM_PROMPT)>> ELSE msgs

\* if not messages or messages[0].get("role") != "system": prepend the prompt
with_system(msgs) ==
    IF msgs = <<>> \/ msgs[1].role # "system"
    THEN <<Msg("system", SYSTEM_PROMPT)>> \o msgs
    ELSE msgs

is_fatal_at_fourth(err_str, att) == ~is_transient(err_str) \/ att = 4

\* if not is_transient or attempt == 3: the failure is fatal
is_fatal(err_str, att) == ~is_transient(err_str) \/ att = 3

api_error_event_unstepped(s, err_str) ==
    [action |-> "run_end", status |-> "api_error", step |-> 0, error |-> err_str]

\* _log_event(log_path, "run_end", status="api_error", step=step, error=err_str)
api_error_event(s, err_str) ==
    [action |-> "run_end", status |-> "api_error", step |-> s, error |-> err_str]

assistant_event_zero_based(s, assistant_msg, tc) ==
    [action |-> "assistant", step |-> s - 1,
     content |-> Or(assistant_msg.content, ""),
     tool_calls |-> IF tc # <<>>
                    THEN <<[id |-> tc[1].id, name |-> tc[1].name,
                            arguments |-> tc[1].arguments]>>
                    ELSE <<>>]

\* _log_event(log_path, "assistant", step=step, content=..., tool_calls=[...])
assistant_event(s, assistant_msg, tc) ==
    [action |-> "assistant", step |-> s,
     content |-> Or(assistant_msg.content, ""),
     tool_calls |-> IF tc # <<>>
                    THEN <<[id |-> tc[1].id, name |-> tc[1].name,
                            arguments |-> tc[1].arguments]>>
                    ELSE <<>>]

backoff_from_zero(att) == Pow2(att - 1)

\* time.sleep(2 ** attempt)
backoff(att) == Pow2(att)

with_tool_message_lost(msgs, tc, res) == msgs

\* messages.append({"role": "tool", "tool_call_id": ..., "content": json.dumps(result)})
with_tool_message(msgs, tc, res) ==
    Append(msgs, [role |-> "tool", tool_call_id |-> tc.id, content |-> json_dumps(res)])

caught_nothing(out) == out

\* try: result = tool.run(**tool_args) / except Exception as e: result = {...}
caught(out) == IF Raised(out) THEN ErrorOf(out) ELSE out

budget_exhausted_as_answer(lg) ==
    Append(lg, [action |-> "run_end", status |-> "answered", step |-> max_steps])

\* The run_end record of an exhausted budget.
budget_exhausted(lg) ==
    Append(lg, [action |-> "run_end", status |-> "max_steps_reached", step |-> max_steps])

NoResponse == [kind |-> "none"]
NoResult == [ok |-> FALSE, error |-> <<>>]
Running == [kind |-> "running"]
Returned(text, msgs) == [kind |-> "return", text |-> text, messages |-> msgs]
Raising(exc) == [kind |-> "raise", exc |-> exc]
Idle == [model |-> 0, tool |-> 0]

\* The filesystems a run may start on: the workspace /ws, a directory /out
\* outside it, optionally the PHREEQC binary and database, a file f in the
\* workspace and a symbolic link /ws/lnk to /out.
BaseFs ==
    [x \in {<<>>, <<"ws">>, <<"out">>, <<"out", "f">>} |->
        IF x = <<"out", "f">> THEN File(<<"s", "e", "c", "r", "e", "t">>) ELSE Dir]

WithPhreeqc(f) == Put(Put(f, PHREEQC_BIN, File(<<>>)), DEFAULT_DB, File(<<>>))
WithFile(f) == Put(f, <<"ws", "f">>, File(<<"a", "\n", "b">>))
WithLink(f) == Put(f, <<"ws", "lnk">>, Link(<<"out">>))

InitialFs == {BaseFs, WithLink(WithFile(WithPhreeqc(BaseFs)))}

\* For the tools on their own, also an installation without the database.
InitialToolFs == InitialFs \cup {Put(WithFile(BaseFs), PHREEQC_BIN, File(<<>>))}

\* The values of BaseTool.allowed_root a caller may have set.
RootChoices == {<<>>, <<<<"ws">>>>, <<<<"out">>>>}

\* The conversations a caller may pass.
InitialConversations ==
    { <<>>,
      <<Msg("user", "question")>>,
      <<Msg("system", "custom prompt"), Msg("user", "question")>> }

UserContents(msgs) == {i \in 1..Len(msgs) : msgs[i].role = "user"}

more_rounds_off_by_one(s) == s <= max_steps

\* range(1, max_steps + 1) holds a value after s.
more_rounds(s) == s < max_steps

\* for step in range(1, max_steps + 1): the head of the round loop after
\* round s, with conversation msgs and audit records lg.
LoopHead(s, msgs, lg) ==
    IF more_rounds(s)
    THEN /\ pc' = "query"
         /\ step' = s + 1
         /\ attempt' = 1
         /\ delays' = <<>>
         /\ log' = lg
         /\ retval' = retval
    ELSE /\ pc' = "returned"
         /\ step' = s
         /\ attempt' = attempt
         /\ delays' = delays
         /\ log' = budget_exhausted(lg)
         /\ retval' = Returned(SENTINEL, msgs)

\* run_agent up to the round loop: the start-up checks, the client, the
\* system prompt, the audit file and its first records.
Start ==
    /\ pc = "start"
    /\ \E client_ok \in BOOLEAN :
       IF allowed_root = <<>>
       THEN /\ pc' = "raised"
            /\ retval' = Raising(Raise("RuntimeError", "allowed_root must be set"))
            /\ UNCHANGED <<fs, messages, log, step, attempt, delays>>
       ELSE IF ~IsPrefix(realpath(fs, WORKSPACE_ROOT), realpath(fs, abspath(allowed_root[1])))
       THEN /\ pc' = "raised"
            /\ retval' = Raising(Raise("RuntimeError", "allowed_root is not inside work_space"))
            /\ UNCHANGED <<fs, messages, log, step, attempt, delays>>
       ELSE IF ~client_ok
       THEN /\ pc' = "raised"
            /\ retval' = Raising(Raise("OpenAIError", "api_key must be set"))
            /\ UNCHANGED <<fs, messages, log, step, attempt, delays>>
       ELSE
       LET msgs == with_system(messages)
           log_dir == makedirs(fs, Append(realpath(fs, abspath(allowed_root[1])), "logs"))
           users == UserContents(msgs)
           lg == <<[action |-> "run_start", model |-> MODEL, max_steps |-> max_steps]>>
                 \o (IF users = {} THEN <<>>
                     ELSE <<[action |-> "user",
                             content |-> msgs[CHOOSE i \in users : \A j \in users : j <= i].content]>>)
       IN  IF log_dir.raised
           THEN /\ pc' = "raised"
                /\ retval' = Raising(Raise("FileExistsError", "logs"))
                /\ UNCHANGED <<fs, messages, log, step, attempt, delays>>
           ELSE /\ fs' = log_dir.fs
                /\ messages' = msgs
                /\ LoopHead(0, msgs, lg)
    /\ tool_specs' = IF pc' = "raised" THEN tool_specs
                     ELSE [i \in 1..Len(tool_objs) |-> tool_spec(tool_objs[i])]
    /\ UNCHANGED <<tool_objs, now, log_paths, futures, workers, allowed_root, max_steps, response, first_tc, result, ncalls,
                   executed, accessed, busy>>

\* client.chat.completions.create(...) is entered.
Query ==
    /\ pc = "query"
    /\ pc' = "calling"
    /\ ncalls' = ncalls + 1
    /\ busy' = [busy EXCEPT !.model = @ + 1]
    /\ UNCHANGED <<tool_objs, now, log_paths, tool_specs, futures, workers, allowed_root, fs, max_steps, messages, log, step, attempt,
                   response, first_tc, result, retval, delays, executed, accessed>>

\* The call returns a reply: break out of the retry loop.
Reply ==
    /\ pc = "calling"
    /\ \E r \in Replies : response' = [kind |-> "reply", message |-> r]
    /\ pc' = "assistant"
    /\ busy' = [busy EXCEPT !.model = @ - 1]
    /\ UNCHANGED <<tool_objs, now, log_paths, tool_specs, futures, workers, allowed_root, fs, max_steps, messages, log, step, attempt,
                   first_tc, result, retval, delays, ncalls, executed, accessed>>

\* The call raises: the except branch of the retry loop.
Fail ==
    /\ pc = "calling"
    /\ \E api_err \in ApiErrors :
       LET err_str == api_err.msg IN
       /\ response' = [kind |-> "error", exc |-> api_err]
       /\ IF is_fatal(err_str, attempt)
          THEN /\ log' = Append(log, api_error_event(step, err_str))
               /\ retval' = Raising(api_err)
               /\ pc' = "raised"
               /\ delays' = delays
          ELSE /\ delays' = Append(delays, backoff(attempt))
               /\ pc' = "sleeping"
               /\ UNCHANGED <<log, retval>>
    /\ busy' = [busy EXCEPT !.model = @ - 1]
    /\ UNCHANGED <<tool_objs, now, log_paths, tool_specs, futures, workers, allowed_root, fs, max_steps, messages, step, attempt,
                   first_tc, result, ncalls, executed, accessed>>

\* time.sleep(2 ** attempt) returns: the next attempt.
Wake ==
    /\ pc = "sleeping"
    /\ attempt' = attempt + 1
    /\ pc' = "query"
    /\ UNCHANGED <<tool_objs, now, log_paths, tool_specs, futures, workers, allowed_root, fs, max_steps, messages, log, step, response,
                   first_tc, result, retval, delays, ncalls, executed, accessed, busy>>

\* The reply is appended and logged; a reply without a tool call ends the run.
Assistant ==
    /\ pc = "assistant"
    /\ LET assistant_msg == response.message
           tool_calls == assistant_msg.tool_calls
           tc == first_of(tool_calls)
           assistant_payload ==
               IF tc # <<>>
               THEN [role |-> "assistant", content |-> Or(assistant_msg.content, ""),
                     tool_calls |-> <<tool_call_payload(tc[1])>>]
               ELSE Msg("assistant", Or(assistant_msg.content, ""))
           msgs == Append(messages, assistant_payload)
           lg == Append(log, assistant_event(step, assistant_msg, tc))
       IN  /\ messages' = msgs
           /\ first_tc' = tc
           /\ IF tc = <<>>
              THEN /\ log' = Append(lg, [action |-> "run_end", status |-> "answered",
                                         step |-> step])
                   /\ retval' = Returned(final_answer(assistant_msg), msgs)
                   /\ pc' = "returned"
              ELSE /\ log' = lg
                   /\ retval' = retval
                   /\ pc' = "dispatch"
    /\ UNCHANGED <<tool_objs, now, log_paths, tool_specs, futures, workers, allowed_root, fs, max_steps, step, attempt, response, result,
                   delays, ncalls, executed, accessed, busy>>

\* The arguments are decoded and the tool looked up: a synthetic error
\* result, or tool.run(**tool_args) is entered.
Dispatch ==
    /\ pc = "dispatch"
    /\ LET tool_name == first_tc[1].name
           raw_args == Or(first_tc[1].arguments, "{}")
           tool_args == json_loads(raw_args)
       IN  IF tool_args.raised
           THEN /\ result' = [ok |-> FALSE,
                              error |-> <<"Invalid tool arguments", tool_args.type, tool_args.msg>>,
                              raw |-> raw_args]
                /\ pc' = "append"
                /\ UNCHANGED <<executed, busy>>
           ELSE IF ~is_dict(tool_args)
           THEN /\ result' = [ok |-> FALSE,
                              error |-> <<"Invalid tool arguments", "ValueError",
                                          "Tool arguments must decode to a JSON object.">>,
                              raw |-> raw_args]
                /\ pc' = "append"
                /\ UNCHANGED <<executed, busy>>
           ELSE IF tool_name \notin TOOLS
           THEN /\ result' = Error(<<"Unknown tool", tool_name>>)
                /\ pc' = "append"
                /\ UNCHANGED <<executed, busy>>
           ELSE /\ executed' = Append(executed, [step |-> step, id |-> first_tc[1].id,
                                                 tool |-> tool_name, args |-> tool_args.val])
                /\ busy' = [busy EXCEPT !.tool = @ + 1]
                /\ pc' = "tool"
                /\ result' = result
    /\ UNCHANGED <<tool_objs, now, log_paths, tool_specs, futures, workers, allowed_root, fs, max_steps, messages, log, step, attempt,
                   response, first_tc, retval, delays, ncalls, accessed>>

\* tool.run returns or raises; run_agent turns an exception into a result,
\* and an exception it does not catch leaves run_agent.
ToolRun ==
    /\ pc = "tool"
    /\ \E proc \in ProcsOf(Last(executed).tool) :
       LET call == Last(executed)
           run == RunTool(call.tool, allowed_root, fs, call.args, proc)
           out == caught(run.out)
       IN  /\ fs' = run.fs
           /\ accessed' = accessed \cup run.acc
           /\ IF Raised(out)
              THEN /\ pc' = "raised"
                   /\ retval' = Raising(out)
                   /\ result' = result
              ELSE /\ pc' = "append"
                   /\ retval' = retval
                   /\ result' = out
    /\ busy' = [busy EXCEPT !.tool = @ - 1]
    /\ UNCHANGED <<tool_objs, now, log_paths, tool_specs, futures, workers, allowed_root, max_steps, messages, log, step, attempt, response,
                   first_tc, delays, ncalls, executed>>

\* The tool message is appended, the tool event logged, and the round ends.
AppendTool ==
    /\ pc = "append"
    /\ LET raw_args == Or(first_tc[1].arguments, "{}")
           tool_args == json_loads(raw_args)
           args_for_log == IF tool_args.raised \/ ~is_dict(tool_args)
                           THEN [raw |-> raw_args]
                           ELSE [obj |-> tool_args.val]
           msgs == with_tool_message(messages, first_tc[1], result)
           lg == Append(log, [action |-> "tool", step |-> step, tool |-> first_tc[1].name,
                              args |-> args_for_log, result |-> result])
       IN  /\ messages' = msgs
           /\ LoopHead(step, msgs, lg)
    /\ UNCHANGED <<tool_objs, now, log_paths, tool_specs, futures, workers, allowed_root, fs, max_steps, response, first_tc, result, ncalls,
                   executed, accessed, busy>>

Init ==
    /\ pc = "start"
    /\ allowed_root \in RootChoices
    /\ fs \in InitialFs
    /\ max_steps \in 0..MaxBudget
    /\ messages \in InitialConversations
    /\ log = <<>>
    /\ step = 0
    /\ attempt = 0
    /\ response = NoResponse
    /\ first_tc = <<>>
    /\ result = NoResult
    /\ retval = Running
    /\ delays = <<>>
    /\ ncalls = 0
    /\ executed = <<>>
    /\ accessed = {}
    /\ busy = Idle
    /\ futures = <<>>
    /\ workers = <<>>
    /\ tool_objs = TOOLS_values
    /\ tool_specs = <<>>
    /\ now = 0
    /\ log_paths = <<>>

Next ==
    \/ Start
    \/ Query
    \/ Reply
    \/ Fail
    \/ Wake
    \/ Assistant
    \/ Dispatch
    \/ ToolRun
    \/ AppendTool

Spec == Init /\ [][Next]_vars

\* run_agent is one sequential computation: its own steps (time.sleep
\* returning included) are taken as long as one is possible, every
\* model-service call returns or fails (Reply,
\* Fail) and every tool call returns or raises (ToolRun).
SpecLive ==
    /\ Init /\ [][Next]_vars
    /\ WF_vars(Start \/ Query \/ Wake \/ Assistant \/ Dispatch \/ AppendTool)
    /\ []<>(pc # "calling")
    /\ []<>(pc # "tool")

(***************************************************************************)
(* SpecTools: the tools on their own.  Any registered tool is invoked with *)
(* any path of up to MaxPathLen components, one invocation after another   *)
(* on the filesystem the earlier ones left.  executed holds the last       *)
(* invocation, result what its run returned or raised, accessed the        *)
(* accesses it made.                                                       *)
(***************************************************************************)
MaxPathLen == 2         \* longest supplied path, in components
MaxInvocations == 2     \* most tool invocations in a row

Components == {"..", "f", "lnk", "ws"}

RECURSIVE SeqsUpTo(_, _)
SeqsUpTo(S, n) ==
    IF n = 0 THEN {<<>>}
    ELSE LET shorter == SeqsUpTo(S, n - 1)
         IN  shorter \cup {Append(q, x) : q \in shorter, x \in S}

PathInputs == [abs : BOOLEAN, parts : SeqsUpTo(Components, MaxPathLen)]

ArgsFor(name, path) ==
    CASE name = "read_file" -> [path |-> path]
      [] name = "write_file" -> [path |-> path, new_content |-> <<"h", "i">>]
      [] name = "list_file" -> [path |-> path]
      [] name = "execute_phreeqc" -> [input_path |-> path]

InvokeTool ==
    /\ pc = "tools"
    /\ step < MaxInvocations
    /\ step' = step + 1
    /\ \E name \in TOOLS, path \in PathInputs : \E proc \in ProcsOf(name) :
       LET args == ArgsFor(name, path)
           run == RunTool(name, allowed_root, fs, args, proc)
       IN  /\ executed' = <<[step |-> step + 1, id |-> CallId(0), tool |-> name, args |-> args]>>
           /\ result' = run.out
           /\ fs' = run.fs
           /\ accessed' = run.acc
    /\ UNCHANGED <<tool_objs, now, log_paths, tool_specs, futures, workers, pc, allowed_root, max_steps, messages, log, attempt,
                   response, first_tc, retval, delays, ncalls, busy>>

InitTools ==
    /\ pc = "tools"
    /\ allowed_root \in RootChoices
    /\ fs \in InitialToolFs
    /\ max_steps = 0
    /\ messages = <<>>
    /\ log = <<>>
    /\ step = 0
    /\ attempt = 0
    /\ response = NoResponse
    /\ first_tc = <<>>
    /\ result = NoResult
    /\ retval = Running
    /\ delays = <<>>
    /\ ncalls = 0
    /\ executed = <<>>
    /\ accessed = {}
    /\ busy = Idle
    /\ futures = <<>>
    /\ workers = <<>>
    /\ tool_objs = <<>>
    /\ tool_specs = <<>>
    /\ now = 0
    /\ log_paths = <<>>

NextTools == InvokeTool

SpecTools == InitTools /\ [][NextTools]_vars

(***************************************************************************)
(* SpecFiles: write_file and read_file on their own, one invocation after  *)
(* another under the root /ws.  As in SpecTools, executed holds the last   *)
(* invocation and result what its run returned or raised.                  *)
(***************************************************************************)
MaxFileOps == 2     \* most invocations in a row
MaxLine == 3        \* largest line number supplied

Repeat(text, n) == [i \in 1..(n * Len(text)) |-> text[((i - 1) % Len(text)) + 1]]

\* Texts: empty, three lines, carriage returns, one line at the cap, one
\* line over it, and PREVIEW_LINES + 1 lines over it.
AtCap == <<Run>>
Wide == <<Run, "x">>
Tall == Repeat(<<"a", "\n">>, PREVIEW_LINES) \o <<Run, "x">>

Texts ==
    { <<>>,
      <<"a", "\n", "b", "\n", "c", "\n">>,
      <<"a", "\r", "\n", "b", "\r", "c">>,
      AtCap, Wide, Tall }

FilePaths == {P(FALSE, <<"f">>), P(FALSE, <<"d", "f">>)}

LineArgs == {<<>>} \cup {<<n>> : n \in (0 - 1)..MaxLine}

\* The keyword arguments of read_file(path, start_line=..., end_line=...).
ReadArgs(path, start_line, end_line) ==
    [k \in {"path"} \cup (IF start_line = <<>> THEN {} ELSE {"start_line"})
                    \cup (IF end_line = <<>> THEN {} ELSE {"end_line"}) |->
        IF k = "path" THEN path
        ELSE IF k = "start_line" THEN start_line[1] ELSE end_line[1]]

Invoked(name, args, run) ==
    /\ executed' = <<[step |-> step + 1, id |-> CallId(0), tool |-> name, args |-> args]>>
    /\ result' = run.out
    /\ fs' = run.fs
    /\ accessed' = run.acc

WriteFile ==
    /\ pc = "files"
    /\ step < MaxFileOps
    /\ step' = step + 1
    /\ \E path \in FilePaths, new_content \in Texts :
       LET args == [path |-> path, new_content |-> new_content] IN
       Invoked("write_file", args,
               RunTool("write_file", allowed_root, fs, args, CHOOSE p \in Procs : TRUE))
    /\ UNCHANGED <<tool_objs, now, log_paths, tool_specs, futures, workers, pc, allowed_root, max_steps, messages, log, attempt,
                   response, first_tc, retval, delays, ncalls, busy>>

ReadFile ==
    /\ pc = "files"
    /\ step < MaxFileOps
    /\ step' = step + 1
    /\ \E path \in FilePaths, start_line \in LineArgs, end_line \in LineArgs :
       LET args == ReadArgs(path, start_line, end_line) IN
       Invoked("read_file", args,
               RunTool("read_file", allowed_root, fs, args, CHOOSE p \in Procs : TRUE))
    /\ UNCHANGED <<tool_objs, now, log_paths, tool_specs, futures, workers, pc, allowed_root, max_steps, messages, log, attempt,
                   response, first_tc, retval, delays, ncalls, busy>>

InitFiles ==
    /\ pc = "files"
    /\ allowed_root = <<WORKSPACE_ROOT>>
    /\ \E text \in Texts : fs = Put(BaseFs, <<"ws", "f">>, File(text))
    /\ max_steps = 0
    /\ messages = <<>>
    /\ log = <<>>
    /\ step = 0
    /\ attempt = 0
    /\ response = NoResponse
    /\ first_tc = <<>>
    /\ result = NoResult
    /\ retval = Running
    /\ delays = <<>>
    /\ ncalls = 0
    /\ executed = <<>>
    /\ accessed = {}
    /\ busy = Idle
    /\ futures = <<>>
    /\ workers = <<>>
    /\ tool_objs = <<>>
    /\ tool_specs = <<>>
    /\ now = 0
    /\ log_paths = <<>>

NextFiles ==
    \/ WriteFile
    \/ ReadFile

SpecFiles == InitFiles /\ [][NextFiles]_vars

(***************************************************************************)
(* SpecToc: execute_phreeqc on the input file /ws/f, with a process that   *)
(* exits with 0 and leaves a result.out of up to MaxTocLines lines.        *)
(***************************************************************************)
MaxTocLines == 3    \* most lines of result.out

\* The kinds of line of result.out: separators, labels, wrapped labels,
\* a blank line and a run of two dashes.
TocLines ==
    { <<"-", "-", "-">>,
      <<" ", "-", "-", "-", "-", " ">>,
      <<"-", "-">>,
      <<>>,
      <<"S", "I", ".", ".">>,
      <<"-", "-", "-", "S", "I", "-", "-", "-">>,
      <<"-", "-", "-", " ", "A", "b", " ", "-", "-", "-", "-">>,
      <<"-", "-", "-", "A", "-", "-", "-">>,
      <<"-", "-", "-", "1", "a", "-", "-", "-">> }

ResultFiles ==
    {join([i \in 1..Len(q) |-> Append(q[i], "\n")]) :
        q \in SeqsUpTo(TocLines, MaxTocLines) \ {<<>>}}

RunPhreeqc ==
    /\ pc = "toc"
    /\ step = 0
    /\ step' = 1
    /\ \E text \in ResultFiles :
       LET args == [input_path |-> P(FALSE, <<"f">>)]
           proc == [returncode |-> 0, stdout |-> <<>>, stderr |-> <<>>, out |-> <<text>>]
       IN  Invoked("execute_phreeqc", args,
                   RunTool("execute_phreeqc", allowed_root, fs, args, proc))
    /\ UNCHANGED <<tool_objs, now, log_paths, tool_specs, futures, workers, pc, allowed_root, max_steps, messages, log, attempt,
                   response, first_tc, retval, delays, ncalls, busy>>

InitToc ==
    /\ pc = "toc"
    /\ allowed_root = <<WORKSPACE_ROOT>>
    /\ fs = WithFile(WithPhreeqc(BaseFs))
    /\ max_steps = 0
    /\ messages = <<>>
    /\ log = <<>>
    /\ step = 0
    /\ attempt = 0
    /\ response = NoResponse
    /\ first_tc = <<>>
    /\ result = NoResult
    /\ retval = Running
    /\ delays = <<>>
    /\ ncalls = 0
    /\ executed = <<>>
    /\ accessed = {}
    /\ busy = Idle
    /\ futures = <<>>
    /\ workers = <<>>
    /\ tool_objs = <<>>
    /\ tool_specs = <<>>
    /\ now = 0
    /\ log_paths = <<>>

NextToc == RunPhreeqc

SpecToc == InitToc /\ [][NextToc]_vars

(***************************************************************************)
(* SpecBatch: the batch harness (answer_questions.py).  main submits every *)
(* record to a ProcessPoolExecutor; each worker process has its own copy   *)
(* of the class attribute BaseTool.allowed_root and handles one question   *)
(* at a time with _process_one_question.  The run_agent call of a question *)
(* is a number of write_file invocations, each validated against the       *)
(* allowed_root of the process it runs in.  allowed_root (the variable) is *)
(* the attribute in the main process, which is never set.                  *)
(***************************************************************************)
MaxRows == 3        \* most rows of the dataset
MaxWorkers == 2     \* most worker processes
MaxToolCalls == 1   \* most tool invocations of one run

\* f"dataset_q_{idx + 1:05d}"
workspace_name(idx) ==
    LET n == idx + 1 IN
    "dataset_q_" \o (IF n < 10 THEN "0000" ELSE IF n < 100 THEN "000" ELSE "00") \o ToString(n)

\* question_workspace = WORKSPACE_ROOT / workspace_name
question_workspace(idx) == Append(WORKSPACE_ROOT, workspace_name(idx))

set_root_in_all(ws, w, root) == [v \in DOMAIN ws |-> [ws[v] EXCEPT !.allowed_root = <<root>>]]

\* BaseTool.allowed_root = str(question_workspace), in worker process w:
\* processes share no memory.
set_root(ws, w, root) == [ws EXCEPT ![w].allowed_root = <<root>>]

IdleWorker == [allowed_root |-> <<>>, row |-> <<>>, validated |-> {}, calls |-> 0]

\* A worker process takes a pending call: _process_one_question up to the
\* call of run_agent.
ProcessStart(w) ==
    /\ pc = "batch"
    /\ workers[w].row = <<>>
    /\ \E idx \in DOMAIN futures :
       /\ futures[idx] = "pending"
       /\ LET made == makedirs(fs, question_workspace(idx))
              started == [workers EXCEPT ![w].row = <<idx>>, ![w].validated = {},
                                         ![w].calls = 0]
          IN  IF made.raised
              THEN /\ futures' = [futures EXCEPT ![idx] = "failed"]
                   /\ UNCHANGED <<fs, workers>>
              ELSE /\ futures' = [futures EXCEPT ![idx] = "running"]
                   /\ fs' = made.fs
                   /\ workers' = set_root(started, w, question_workspace(idx))
    /\ UNCHANGED <<tool_objs, tool_specs, now, log_paths,
                   pc, allowed_root, max_steps, messages, log, step, attempt,
                   response, first_tc, result, retval, delays, ncalls, executed,
                   accessed, busy>>

\* The run of worker w invokes write_file: the path is validated against
\* the allowed_root of its process.
ProcessTool(w) ==
    /\ pc = "batch"
    /\ workers[w].row # <<>>
    /\ workers[w].calls < MaxToolCalls
    /\ LET args == [path |-> P(FALSE, <<"final_answer.txt">>),
                    new_content |-> <<"A", "\n">>]
           run == RunTool("write_file", workers[w].allowed_root, fs, args,
                          CHOOSE p \in Procs : TRUE)
       IN  /\ fs' = run.fs
           /\ accessed' = accessed \cup run.acc
           /\ workers' = [workers EXCEPT ![w].calls = @ + 1,
                                         ![w].validated = @ \cup {workers[w].allowed_root}]
    /\ UNCHANGED <<tool_objs, tool_specs, now, log_paths,
                   pc, allowed_root, max_steps, messages, log, step, attempt,
                   response, first_tc, result, retval, delays, ncalls, executed,
                   busy, futures>>

\* run_agent returns or raises; the rest of _process_one_question reads
\* final_answer.txt and the future is done.  allowed_root stays as set.
ProcessEnd(w) ==
    /\ pc = "batch"
    /\ workers[w].row # <<>>
    /\ futures' = [futures EXCEPT ![workers[w].row[1]] = "done"]
    /\ workers' = [workers EXCEPT ![w].row = <<>>]
    /\ UNCHANGED <<tool_objs, tool_specs, now, log_paths,
                   pc, allowed_root, fs, max_steps, messages, log, step, attempt,
                   response, first_tc, result, retval, delays, ncalls, executed,
                   accessed, busy>>

\* main: records with distinct indexes (rows without a question or an
\* answer are skipped), workers = max(1, args.workers) processes.
InitBatch ==
    /\ pc = "batch"
    /\ allowed_root = <<>>
    /\ fs = BaseFs
    /\ max_steps = 0
    /\ messages = <<>>
    /\ log = <<>>
    /\ step = 0
    /\ attempt = 0
    /\ response = NoResponse
    /\ first_tc = <<>>
    /\ result = NoResult
    /\ retval = Running
    /\ delays = <<>>
    /\ ncalls = 0
    /\ executed = <<>>
    /\ accessed = {}
    /\ busy = Idle
    /\ \E rows \in SUBSET (0..(MaxRows - 1)) :
          /\ rows # {}
          /\ futures = [idx \in rows |-> "pending"]
    /\ \E n \in 1..MaxWorkers : workers = [w \in 1..n |-> IdleWorker]
    /\ tool_objs = <<>>
    /\ tool_specs = <<>>
    /\ now = 0
    /\ log_paths = <<>>

NextBatch ==
    \E w \in DOMAIN workers :
        \/ ProcessStart(w)
        \/ ProcessTool(w)
        \/ ProcessEnd(w)

SpecBatch == InitBatch /\ [][NextBatch]_vars

(***************************************************************************)
(* SpecDecl: _tool_spec on its own.  The registry holds one tool object    *)
(* whose parameters attribute is absent, a flat mapping of up to MaxParams *)
(* parameter names to descriptions, or a schema.                           *)
(***************************************************************************)
MaxParams == 2      \* most parameters of a flat mapping

\* The flat mappings: distinct names, in any order, any descriptions.
FlatParams ==
    { params \in UNION {[1..n -> {"path", "type", "new_content"}
                                   \X {"", "Target file path", "Full file content"}] :
                        n \in 0..MaxParams} :
          \A i, j \in 1..Len(params) : params[i][1] = params[j][1] => i = j }

SchemaParams == {TOOLS_values[1].parameters,
                 << <<"type", "object">>, <<"properties", <<>> >>, <<"required", <<>> >> >>}

ToolObject(params) == [name |-> "t", description |-> "a tool", parameters |-> params]

\* tool_specs = [_tool_spec(tool) for tool in TOOLS.values()]
BuildSpecs ==
    /\ pc = "decl"
    /\ tool_specs = <<>>
    /\ tool_specs' = [i \in 1..Len(tool_objs) |-> tool_spec(tool_objs[i])]
    /\ UNCHANGED <<pc, allowed_root, fs, max_steps, messages, log, step, attempt,
                   response, first_tc, result, retval, delays, ncalls, executed,
                   accessed, busy, futures, workers, tool_objs, now, log_paths>>

InitDecl ==
    /\ pc = "decl"
    /\ allowed_root = <<>>
    /\ fs = BaseFs
    /\ max_steps = 0
    /\ messages = <<>>
    /\ log = <<>>
    /\ step = 0
    /\ attempt = 0
    /\ response = NoResponse
    /\ first_tc = <<>>
    /\ result = NoResult
    /\ retval = Running
    /\ delays = <<>>
    /\ ncalls = 0
    /\ executed = <<>>
    /\ accessed = {}
    /\ busy = Idle
    /\ futures = <<>>
    /\ workers = <<>>
    /\ \/ \E params \in FlatParams : tool_objs = <<ToolObject(params)>>
       \/ \E params \in SchemaParams : tool_objs = <<ToolObject(params)>>
       \/ tool_objs = <<[name |-> "t", description |-> "a tool"]>>
    /\ tool_specs = <<>>
    /\ now = 0
    /\ log_paths = <<>>

NextDecl == BuildSpecs

SpecDecl == InitDecl /\ [][NextDecl]_vars

(***************************************************************************)
(* SpecLogs: the audit files of several runs.  The caller sets             *)
(* BaseTool.allowed_root and calls run_agent without a log path, the clock *)
(* ticks in between.  A run is taken up to its run_start record; its       *)
(* rounds (Spec) append to the same file.  An audit file is a file whose   *)
(* content is the sequence of its records.                                 *)
(***************************************************************************)
MaxRuns == 3        \* most runs started
MaxSeconds == 2     \* last second of the clock

\* The roots the caller uses: work_space and a directory of one question.
LogRoots == {WORKSPACE_ROOT, Append(WORKSPACE_ROOT, "q")}

\* "%02d"
TwoDigits(n) == IF n < 10 THEN "0" \o ToString(n) ELSE ToString(n)

\* datetime.now().strftime("%Y%m%d_%H%M%S") at second t of the first day.
strftime(t) ==
    "19700101_" \o TwoDigits(t \div 3600) \o TwoDigits((t \div 60) % 60) \o TwoDigits(t % 60)

\* f"chat_{ts}_{int(time.time())}.jsonl", the clock being read at second t
\* for ts and at second u for time.time().
chat_name(t, u) == "chat_" \o strftime(t) \o "_" \o ToString(u) \o ".jsonl"

\* _default_log_dir: root / "logs"
default_log_dir(f, root) == Append(realpath(f, abspath(root)), "logs")

\* _log_event: open(log_path, "a") and write one line.
log_event(f, log_path, event) ==
    IF log_path \in DOMAIN f
    THEN Put(f, log_path, File(Append(f[log_path].content, event)))
    ELSE Put(f, log_path, File(<<event>>))

\* The caller: BaseTool.allowed_root = ...
SetRoot ==
    /\ pc = "logs"
    /\ \E root \in LogRoots : allowed_root' = <<root>>
    /\ allowed_root' # allowed_root
    /\ UNCHANGED <<pc, fs, max_steps, messages, log, step, attempt, response,
                   first_tc, result, retval, delays, ncalls, executed, accessed,
                   busy, futures, workers, tool_objs, tool_specs, now, log_paths>>

\* A second passes.
Tick ==
    /\ pc = "logs"
    /\ now < MaxSeconds
    /\ now' = now + 1
    /\ UNCHANGED <<pc, allowed_root, fs, max_steps, messages, log, step, attempt,
                   response, first_tc, result, retval, delays, ncalls, executed,
                   accessed, busy, futures, workers, tool_objs, tool_specs,
                   log_paths>>

\* run_agent(messages) up to its first audit record: _make_log_path creates
\* the directory and reads the clock twice (a second may pass in between),
\* then run_start is appended to the file.
StartRun ==
    /\ pc = "logs"
    /\ Len(log_paths) < MaxRuns
    /\ \E passed \in {0, 1} :
       /\ now + passed <= MaxSeconds
       /\ now' = now + passed
       /\ LET log_dir == makedirs(fs, default_log_dir(fs, allowed_root[1]))
              log_path == Append(default_log_dir(fs, allowed_root[1]), chat_name(now, now'))
          IN  /\ ~log_dir.raised
              /\ fs' = log_event(log_dir.fs, log_path,
                                 [action |-> "run_start", model |-> MODEL, max_steps |-> max_steps])
              /\ log_paths' = Append(log_paths, log_path)
    /\ UNCHANGED <<pc, allowed_root, max_steps, messages, log, step, attempt,
                   response, first_tc, result, retval, delays, ncalls, executed,
                   accessed, busy, futures, workers, tool_objs, tool_specs>>

InitLogs ==
    /\ pc = "logs"
    /\ allowed_root \in {<<root>> : root \in LogRoots}
    /\ fs = BaseFs
    /\ max_steps = 24
    /\ messages = <<>>
    /\ log = <<>>
    /\ step = 0
    /\ attempt = 0
    /\ response = NoResponse
    /\ first_tc = <<>>
    /\ result = NoResult
    /\ retval = Running
    /\ delays = <<>>
    /\ ncalls = 0
    /\ executed = <<>>
    /\ accessed = {}
    /\ busy = Idle
    /\ futures = <<>>
    /\ workers = <<>>
    /\ tool_objs = TOOLS_values
    /\ tool_specs = <<>>
    /\ now = 0
    /\ log_paths = <<>>

NextLogs ==
    \/ SetRoot
    \/ Tick
    \/ StartRun

SpecLogs == InitLogs /\ [][NextLogs]_vars

(***************************************************************************)
(* Properties                                                              *)
(***************************************************************************)
\* The path a tool invocation was given.
PathOf(call) ==
    IF call.tool = "execute_phreeqc" THEN call.args["input_path"] ELSE call.args["path"]

\* The location the operating system reaches for a supplied path: joined to
\* the root, ".." resolved, symbolic links followed.
RealLocation(f, root, path) == realpath(f, abspath(PathJoin(abspath(root), path)))

Inside(f, root, loc) == IsPrefix(realpath(f, abspath(root)), loc)

\* C3: whenever a registered tool was invoked with a path whose real
\* location lies outside the configured root, validate_path reported a
\* violation and the tool touched nothing, there or anywhere; and a tool
\* that made any access had its path accepted by validate_path first.
C3_NoEscape ==
    (pc = "tools" /\ executed # <<>> /\ allowed_root # <<>>) =>
        LET call == Last(executed)
            root == allowed_root[1]
        IN  /\ ~Inside(fs, root, RealLocation(fs, root, PathOf(call))) =>
                  /\ validate_path(allowed_root, PathOf(call)).raised
                  /\ accessed = {}
            /\ accessed # {} => ~validate_path(allowed_root, PathOf(call)).raised

\* Helpers over the conversation and the audit records.
Indices(seq, Test(_)) == {i \in 1..Len(seq) : Test(seq[i])}

IsAssistant(m) == m.role = "assistant"
IsTool(m) == m.role = "tool"
HasCall(m) == "tool_calls" \in DOMAIN m
IsRunEnd(ev) == ev.action = "run_end"

Events(action, s) == {i \in 1..Len(log) : log[i].action = action /\ log[i].step = s}

Runs(s) == {i \in 1..Len(executed) : executed[i].step = s}

\* Every call id that the conversation, the audit records or the tool runs
\* mention.
SurfacedIds ==
    UNION {{c.id : c \in {m.tool_calls[k] : k \in 1..Len(m.tool_calls)}} :
           m \in {messages[i] : i \in Indices(messages, HasCall)}}
    \cup {messages[i].tool_call_id : i \in Indices(messages, IsTool)}
    \cup UNION {{log[i].tool_calls[k].id : k \in 1..Len(log[i].tool_calls)} :
                i \in {j \in 1..Len(log) : log[j].action = "assistant"}}
    \cup {executed[i].id : i \in 1..Len(executed)}

\* The last reply proposed two or more tool calls and has been appended.
Proposed == IF response.kind = "reply" THEN response.message.tool_calls ELSE <<>>

InRound == pc \in {"dispatch", "tool", "append"}
RoundOver == response.kind = "reply" /\ Proposed # <<>> /\ pc \in {"query", "returned"}
Round == IF pc = "query" THEN step - 1 ELSE step

\* The assistant message of the round the last reply belongs to.
RoundAssistant == IF InRound THEN Last(messages) ELSE messages[Len(messages) - 1]

Runnable(tc) ==
    LET decoded == json_loads(Or(tc.arguments, "{}")) IN
    ~decoded.raised /\ decoded.type = "dict" /\ tc.name \in TOOLS

C1_Common ==
    LET first == Proposed[1] IN
    /\ RoundAssistant.role = "assistant"
    /\ HasCall(RoundAssistant)
    /\ Len(RoundAssistant.tool_calls) = 1
    /\ RoundAssistant.tool_calls[1].id = first.id
    /\ RoundAssistant.tool_calls[1].function.name = first.name
    /\ \A i \in Events("assistant", Round) :
          Len(log[i].tool_calls) = 1 /\ log[i].tool_calls[1].id = first.id
    /\ \A i \in Runs(Round) : executed[i].id = first.id /\ executed[i].tool = first.name
    /\ \A k \in 2..Len(Proposed) : Proposed[k].id \notin SurfacedIds
    /\ RoundOver =>
          /\ Last(messages).role = "tool"
          /\ Last(messages).tool_call_id = first.id
          /\ Cardinality(Events("tool", Round)) = 1
          /\ \A i \in Events("tool", Round) : log[i].tool = first.name

\* C1 as stated: in a round whose reply proposes two or more tool calls,
\* the appended assistant message carries only the first call, exactly one
\* tool is run in the round, and the other calls are never run or recorded.
C1_ExactlyOneRun ==
    (Len(Proposed) >= 2 /\ (InRound \/ RoundOver)) =>
        /\ C1_Common
        /\ RoundOver => Cardinality(Runs(Round)) = 1

\* C1 (amended): in a round whose reply proposes two or more tool calls, the
\* appended assistant message and the assistant audit event carry only the
\* first call, the round ends with one tool message and one tool audit event
\* for that call, at most one tool is run - the first call's, and exactly
\* one when its arguments decode to an object and its name is registered -
\* and the other calls are never run or recorded.
C1_FirstCallOnly ==
    (Len(Proposed) >= 2 /\ (InRound \/ RoundOver)) =>
        /\ C1_Common
        /\ Cardinality(Runs(Round)) <= 1
        /\ RoundOver => (Cardinality(Runs(Round)) = 1 <=> Runnable(Proposed[1]))

C1_Witness ==
    /\ Len(Proposed) >= 2
    /\ RoundOver
    /\ Cardinality(Runs(Round)) = 1
    /\ <<"ws", "f">> \in DOMAIN fs
    /\ <<"ws", "d">> \notin DOMAIN fs

\* The conversations the run has appended so far.
Assistants == Indices(messages, IsAssistant)
ToolMessages == Indices(messages, IsTool)

Started == log # <<>>
Ended == pc \in {"returned", "raised"}

\* The run was given one user message, every reply so far asked for a tool
\* and no model-service call failed.
AlwaysToolNoFailure ==
    /\ Started
    /\ Len(messages) >= 2
    /\ messages[1] = Msg("system", SYSTEM_PROMPT)
    /\ messages[2].role = "user"
    /\ \A i \in Assistants : HasCall(messages[i])
    /\ ncalls = Cardinality(Assistants)
    /\ response.kind # "error"

\* C2: a run on one user message, with budget B, whose every reply asks for
\* a tool and whose model-service calls never fail, ends after exactly B
\* rounds: B replies, B tool messages, 2 + 2*B messages, the sentinel
\* returned, run_end max_steps_reached logged, nothing raised.
C2_BudgetExhaustion ==
    (Ended /\ AlwaysToolNoFailure) =>
        /\ pc = "returned"
        /\ retval = Returned(SENTINEL, messages)
        /\ Len(messages) = 2 + 2 * max_steps
        /\ Cardinality(Assistants) = max_steps
        /\ Cardinality(ToolMessages) = max_steps
        /\ ncalls = max_steps
        /\ \A i \in 1..max_steps :
              /\ messages[1 + 2 * i].role = "assistant"
              /\ messages[2 + 2 * i].role = "tool"
        /\ Last(log) = [action |-> "run_end", status |-> "max_steps_reached",
                        step |-> max_steps]
        /\ Cardinality(Indices(log, IsRunEnd)) = 1

C2_Witness ==
    /\ Ended
    /\ AlwaysToolNoFailure
    /\ max_steps >= 2
    /\ Len(messages) = 2 + 2 * max_steps

HasReply == pc \in {"assistant", "dispatch", "tool", "append"}

\* C4: a round whose model-service call failed on attempts 1 and 2 and
\* succeeded on attempt 3 goes on with the reply: nothing is raised, no
\* run_end is logged, and exactly two delays were taken, 2 then 4 seconds,
\* none after the success.
C4_RetryThenSuccess ==
    (HasReply /\ attempt = 3) =>
        /\ response.kind = "reply"
        /\ delays = <<2, 4>>
        /\ retval = Running
        /\ Indices(log, IsRunEnd) = {}
        /\ pc # "assistant" => Last(messages) = RoundAssistant

C4_Witness ==
    /\ pc = "append"
    /\ attempt = 3
    /\ step = 2
    /\ delays = <<2, 4>>

NonTransientTypes == {"AuthenticationError"}

\* C5: after a model-service call failed with an authentication or
\* configuration error, whatever its message, the run has raised that error:
\* no delay is taken and no further call is made.
C5_NoRetryOfFatal ==
    (response.kind = "error" /\ response.exc.type \in NonTransientTypes) =>
        /\ pc = "raised"
        /\ retval = Raising(response.exc)

\* C6: when the run raised an upstream failure (a non-transient one, or the
\* third transient one of a round), the last audit record is run_end with
\* status api_error and the current step, and the failed round has left no
\* assistant message, no tool message and no tool run.
C6_ApiErrorLogged ==
    (pc = "raised" /\ Started) =>
        /\ response.kind = "error"
        /\ retval = Raising(response.exc)
        /\ Last(log) = [action |-> "run_end", status |-> "api_error", step |-> step,
                        error |-> response.exc.msg]
        /\ Indices(log, IsRunEnd) = {Len(log)}
        /\ Cardinality(Assistants) = step - 1
        /\ Cardinality(ToolMessages) = step - 1
        /\ Events("assistant", step) = {}
        /\ Events("tool", step) = {}
        /\ Runs(step) = {}
        /\ busy = Idle

C6_Witness ==
    /\ pc = "raised"
    /\ Started
    /\ attempt = 3
    /\ is_transient(response.exc.msg)
    /\ step = 2
    /\ executed # <<>>

\* C7: a run that got past its start-up checks and ended has exactly one
\* run_end record, the last one, and either returned the text of a reply
\* that asked for no tool (answered), or returned the sentinel
\* (max_steps_reached), or raised the upstream failure (api_error); until
\* then it has returned and raised nothing and logged no run_end.
C7_ThreeOutcomes ==
    Started =>
        /\ ~Ended => retval = Running /\ Indices(log, IsRunEnd) = {}
        /\ Ended =>
              /\ Indices(log, IsRunEnd) = {Len(log)}
              /\ \/ /\ pc = "returned"
                    /\ retval.kind = "return"
                    /\ Last(log).status = "answered"
                    /\ response.kind = "reply"
                    /\ response.message.tool_calls = <<>>
                    /\ retval.text = Or(response.message.content, "")
                 \/ /\ pc = "returned"
                    /\ retval.kind = "return"
                    /\ Last(log).status = "max_steps_reached"
                    /\ retval.text = SENTINEL
                    /\ step = max_steps
                 \/ /\ pc = "raised"
                    /\ retval.kind = "raise"
                    /\ Last(log).status = "api_error"
                    /\ response.kind = "error"
                    /\ retval.exc = response.exc

\* A run that ended after a tool raised inside run (a sandbox violation in
\* write_file) and after an argument decode error.
C7_Witness ==
    /\ pc = "returned"
    /\ Last(log).status = "max_steps_reached"
    /\ \E i \in ToolMessages :
          messages[i].content.json = Error(<<"ValueError", "Disallowed path">>)
    /\ \E i \in ToolMessages : "raw" \in DOMAIN messages[i].content.json

\* C8: once a reply without a tool call has been handled, the run has
\* returned: the value is that reply's text and the conversation, whose
\* last message is that reply; no tool ran in the round, no further query
\* was made, and run_end answered with the round's step is the last record.
C8_AnswerEndsRun ==
    (response.kind = "reply" /\ response.message.tool_calls = <<>> /\ pc # "assistant") =>
        /\ pc = "returned"
        /\ retval.kind = "return"
        /\ retval.messages = messages
        /\ Last(messages).role = "assistant"
        /\ ~HasCall(Last(messages))
        /\ retval.text = Last(messages).content
        /\ retval.text = Or(response.message.content, "")
        /\ Runs(step) = {}
        /\ Events("tool", step) = {}
        /\ Last(log) = [action |-> "run_end", status |-> "answered", step |-> step]
        /\ Cardinality(Assistants) = step
        /\ busy = Idle

C8_Witness ==
    /\ pc = "returned"
    /\ response.kind = "reply"
    /\ response.message.tool_calls = <<>>
    /\ step = 2
    /\ retval.text = "text"

\* C9: while a model query is in flight in round n+1 the conversation ends
\* with the tool message of round n's call; never are two tool runs, two
\* queries, or a tool run and a query in progress together.
C9_Sequential ==
    /\ busy.model + busy.tool <= 1
    /\ busy.model = 1 <=> pc = "calling"
    /\ busy.tool = 1 <=> pc = "tool"
    /\ (pc = "calling" /\ step > 1) =>
          /\ Last(messages).role = "tool"
          /\ messages[Len(messages) - 1].role = "assistant"
          /\ HasCall(messages[Len(messages) - 1])
          /\ Last(messages).tool_call_id = messages[Len(messages) - 1].tool_calls[1].id
          /\ Cardinality(ToolMessages) = step - 1
          /\ Cardinality(Assistants) = step - 1
          /\ Last(messages).content = json_dumps(result)

C9_Witness ==
    /\ pc = "calling"
    /\ step = 2
    /\ attempt = 2
    /\ Runs(1) # {}

\* C10: once the run has started, the first message of the conversation has
\* role system, and every step after the start leaves the conversation as
\* it was or appends to it.
C10_SystemFirstGrowOnly ==
    [][ /\ pc # "start" => IsPrefix(messages, messages')
        /\ log' # <<>> => messages' # <<>> /\ messages'[1].role = "system"
      ]_vars

C10_Witness ==
    /\ Started
    /\ messages[1] = Msg("system", SYSTEM_PROMPT)
    /\ Len(messages) >= 4
    /\ messages[2].role = "user"

\* C11: every invocation of a registered tool hands back a ToolResult with a
\* boolean ok; its run never raises, whatever the path, the filesystem and
\* the configured root (a sandbox violation or an unset root included).
C11_ToolsNeverRaise ==
    (pc = "tools" /\ executed # <<>>) =>
        /\ ~Raised(result)
        /\ result.ok \in BOOLEAN

\* The failure kind of a round, read off the ToolResult it recorded.
IsDecodeError(res) == "raw" \in DOMAIN res
HasError(res) == ~res.ok /\ "error" \in DOMAIN res /\ res.error # <<>>
IsUnknownTool(res) == HasError(res) /\ ~IsDecodeError(res) /\ res.error[1] = "Unknown tool"
IsViolation(res) == HasError(res) /\ res.error = <<"ValueError", "Disallowed path">>
IsToolFailure(res) ==
    HasError(res) /\ ~IsDecodeError(res) /\ ~IsUnknownTool(res) /\ ~IsViolation(res)

ToolEvents == {i \in 1..Len(log) : log[i].action = "tool"}

\* The four local failure kinds of a round, read off its tool audit event:
\* the arguments were logged raw, the name is not registered, the supplied
\* path is rejected by validate_path, or the result describes an error.
PathKey(name) == IF name = "execute_phreeqc" THEN "input_path" ELSE "path"

FailedLocally(ev) ==
    \/ "raw" \in DOMAIN ev.args
    \/ ev.tool \notin TOOLS
    \/ /\ "obj" \in DOMAIN ev.args
       /\ PathKey(ev.tool) \in DOMAIN ev.args.obj
       /\ validate_path(allowed_root, ev.args.obj[PathKey(ev.tool)]).raised
    \/ "error" \in DOMAIN ev.result

\* The position in the conversation of the tool message of round s.
NthToolMessage(s) ==
    CHOOSE n \in ToolMessages : Cardinality({m \in ToolMessages : m <= n}) = s

\* C12: a round whose tool call failed locally (arguments that do not decode
\* to an object, an unknown tool name, a tool that failed or raised, a
\* sandbox violation) ends with exactly one tool message, whose content is
\* the ok = false result, and one tool audit event; the run does not end and
\* does not raise: with budget left the next query is made with that result
\* last in the conversation, without budget the run returns the sentinel.
C12_LocalFailuresKeepRunAlive ==
    /\ pc = "tool" => retval = Running
    /\ (pc = "append" /\ ~result.ok) => retval = Running
    /\ \A i \in ToolEvents :
          LET s == log[i].step
              res == log[i].result
          IN  FailedLocally(log[i]) =>
                /\ ~res.ok
                /\ Cardinality(Events("tool", s)) = 1
                /\ Cardinality(ToolMessages) >= s
                /\ LET k == NthToolMessage(s) IN
                   /\ messages[k].content = json_dumps(res)
                   /\ messages[k].content.json.ok = FALSE
                   /\ messages[k - 1].role = "assistant"
                   /\ messages[k].tool_call_id = messages[k - 1].tool_calls[1].id
                   /\ (k < Len(messages) => IsAssistant(messages[k + 1]))
                   /\ (step = s + 1 /\ pc \in {"query", "calling", "sleeping"}) =>
                         k = Len(messages)
                /\ s < max_steps => step > s
                /\ (s < max_steps /\ pc \in {"calling", "sleeping"}) => ncalls > s
                /\ (s = step /\ Ended) =>
                      /\ pc = "returned"
                      /\ Last(log).status = "max_steps_reached"
                /\ pc = "raised" => (response.kind = "error" /\ step > s)

\* Two rounds failed locally, on an unknown tool and inside a tool's run, and
\* the run went on to its budget.
C12_Witness ==
    /\ pc = "returned"
    /\ \E i \in ToolEvents : IsUnknownTool(log[i].result)
    /\ \E i \in ToolEvents : IsToolFailure(log[i].result)
    /\ Len(messages) = 2 + 2 * max_steps

\* The arguments of the retained call are not the text of a JSON object.
Undecodable ==
    LET decoded == json_loads(Or(first_tc[1].arguments, "{}")) IN
    decoded.raised \/ decoded.type # "dict"

\* C13: when the retained call's argument text is not valid JSON or decodes
\* to something that is not an object, the round records a synthetic error
\* result carrying the raw text, no tool's run is entered (registered name or
\* not), and nothing in the round changes the filesystem.
C13_DecodeErrorRunsNothing ==
    [][ /\ (pc = "dispatch" /\ Undecodable) =>
              /\ pc' = "append"
              /\ ~result'.ok
              /\ IsDecodeError(result')
              /\ result'.raw = Or(first_tc[1].arguments, "{}")
              /\ Runs(step) = {}
              /\ UNCHANGED <<fs, executed, accessed, busy>>
        /\ (pc = "append" /\ Undecodable) =>
              /\ Runs(step) = {}
              /\ UNCHANGED <<fs, executed, accessed, busy>>
              /\ Last(messages').content = json_dumps(result)
        /\ pc = "assistant" => UNCHANGED <<fs, executed, accessed>>
        /\ pc' = "tool" => ~Undecodable
      ]_vars

\* A registered tool was named with arguments that decode to null, and the
\* round is over.
C13_Witness ==
    /\ pc = "query"
    /\ step = 2
    /\ first_tc # <<>>
    /\ first_tc[1].name \in TOOLS
    /\ first_tc[1].arguments = ArgText.null
    /\ Last(messages).role = "tool"
    /\ IsDecodeError(Last(messages).content.json)
    /\ executed = <<>>

\* C14: a tool invoked while no root is configured fails fatally: its
\* outcome is not an ordinary ToolResult.
C14_UnsetRootIsFatal ==
    (pc = "tools" /\ executed # <<>> /\ allowed_root = <<>>) => Raised(result)

\* The last invocation of SpecFiles, and the text an open(..., "r") of the
\* file it names yields.
FileCall == Last(executed)
IsRead == pc = "files" /\ executed # <<>> /\ FileCall.tool = "read_file"
WholeRead == IsRead /\ DOMAIN FileCall.args = {"path"}
RangeRead == IsRead /\ DOMAIN FileCall.args # {"path"}
Succeeded(res) == ~Raised(res) /\ res.ok
TextAt(f, path) == universal_newlines(f[RealLocation(f, WORKSPACE_ROOT, path)].content)

\* The number of lines of a text: its newlines, and a last line without one.
CountLines(text) ==
    Cardinality({i \in 1..Len(text) : text[i] = "\n"})
    + (IF text # <<>> /\ Last(text) # "\n" THEN 1 ELSE 0)

IsSuffix(s, t) == Len(s) <= Len(t) /\ SubSeq(t, Len(t) - Len(s) + 1, Len(t)) = s

\* C15: a successful write_file of content C to a path, followed by
\* read_file of the same path without a line range, returns exactly C as
\* its content, whatever the path held before.
C15_WriteThenRead ==
    [][ ( /\ pc = "files"
          /\ executed # <<>>
          /\ FileCall.tool = "write_file"
          /\ Succeeded(result)
          /\ executed'[1].tool = "read_file"
          /\ DOMAIN executed'[1].args = {"path"}
          /\ executed'[1].args["path"] = FileCall.args["path"] )
        => ( /\ Succeeded(result')
             /\ "content" \in DOMAIN result'
             /\ result'.content = FileCall.args["new_content"] )
      ]_vars

\* C16 as stated: a read without a line range of a file whose text exceeds
\* the cap is truncated with a head and a tail of exactly PREVIEW_LINES
\* lines each and the file's line count; a text under the cap comes back
\* whole, without the truncated flag.
C16_TruncationExact ==
    (WholeRead /\ Succeeded(result)) =>
        LET text == TextAt(fs, FileCall.args["path"]) IN
        /\ result.total_lines = CountLines(text)
        /\ len(text) > MAX_CHARS =>
              /\ "truncated" \in DOMAIN result
              /\ result.truncated
              /\ CountLines(result.head) = PREVIEW_LINES
              /\ CountLines(result.tail) = PREVIEW_LINES
        /\ len(text) < MAX_CHARS =>
              /\ "truncated" \notin DOMAIN result
              /\ result.content = text

\* C16 (amended): a read without a line range of a file of L lines whose
\* text exceeds the cap is truncated: the head is the first
\* min(L, PREVIEW_LINES) lines, the tail the last min(L, PREVIEW_LINES)
\* lines, and the line count is L; a text of at most MAX_CHARS characters
\* comes back whole, without the truncated flag.
C16_Truncation ==
    (WholeRead /\ Succeeded(result)) =>
        LET text == TextAt(fs, FileCall.args["path"])
            L == CountLines(text)
        IN
        /\ result.total_lines = L
        /\ len(text) > MAX_CHARS =>
              /\ "truncated" \in DOMAIN result
              /\ result.truncated
              /\ "content" \notin DOMAIN result
              /\ IsPrefix(result.head, text)
              /\ CountLines(result.head) = Min(L, PREVIEW_LINES)
              /\ result.head = text \/ Last(result.head) = "\n"
              /\ IsSuffix(result.tail, text)
              /\ CountLines(result.tail) = Min(L, PREVIEW_LINES)
              /\ result.tail = text \/ text[Len(text) - Len(result.tail)] = "\n"
        /\ len(text) <= MAX_CHARS =>
              /\ "truncated" \notin DOMAIN result
              /\ result.content = text

\* A file of PREVIEW_LINES + 1 lines over the cap was read and truncated.
C16_Witness ==
    /\ WholeRead
    /\ Succeeded(result)
    /\ "truncated" \in DOMAIN result
    /\ result.total_lines = PREVIEW_LINES + 1
    /\ CountLines(result.head) = PREVIEW_LINES
    /\ result.head # result.tail

\* C17: a read with a line range returns exactly the lines of the file
\* whose 1-based number lies between start_line and end_line inclusive (an
\* absent start_line is the first line, an absent end_line the last), in
\* order, and the file's line count.
C17_ExactRange ==
    (RangeRead /\ Succeeded(result)) =>
        LET args == FileCall.args
            lines == readlines(TextAt(fs, args["path"]))
            L == Len(lines)
            first == IF "start_line" \in DOMAIN args THEN args["start_line"] ELSE 1
            last == IF "end_line" \in DOMAIN args THEN args["end_line"] ELSE L
        IN  /\ result.total_lines = L
            /\ result.content = join(SubSeq(lines, Max(first, 1), Min(last, L)))

\* The lines of result.out after a run of SpecToc, stripped of surrounding
\* whitespace.
OutLines == readlines(fs[<<"ws", "result.out">>].content)
Stripped(i) == strip(OutLines[i])

\* A line made only of a run of three or more dashes.
DashOnly(s) == Len(s) >= 3 /\ \A k \in 1..Len(s) : s[k] = "-"

\* The lengths of the runs of dashes a line starts and ends with.
LeadDashes(s) == Cardinality({k \in 1..Len(s) : \A j \in 1..k : s[j] = "-"})
TrailDashes(s) == Cardinality({k \in 1..Len(s) : \A j \in k..Len(s) : s[j] = "-"})

\* The label of a line wrapped between two runs of three or more dashes:
\* what lies between the runs, without surrounding blanks; <<>> when the
\* line is not of that form.
WrappedLabel(s) ==
    IF LeadDashes(s) >= 3 /\ TrailDashes(s) >= 3 /\ LeadDashes(s) + TrailDashes(s) < Len(s)
    THEN strip(SubSeq(s, LeadDashes(s) + 1, Len(s) - TrailDashes(s)))
    ELSE <<>>

\* A label line: not empty, not a separator, not a wrapped label.
LabelLine(s) == s # <<>> /\ ~DashOnly(s) /\ WrappedLabel(s) = <<>>

WithoutTrailingPeriods(s) ==
    LET keep == {k \in 0..Len(s) : (k = 0 \/ s[k] # ".") /\ \A j \in (k + 1)..Len(s) : s[j] = "."}
    IN  SubSeq(s, 1, CHOOSE k \in keep : TRUE)

HasEntry(toc, line, section) ==
    \E k \in 1..Len(toc) : toc[k] = [line |-> line, section |-> section]

TocDone == pc = "toc" /\ executed # <<>> /\ Succeeded(result)

ImplicitLabels(toc) ==
    \A i \in 1..(Len(OutLines) - 1) :
        (DashOnly(Stripped(i)) /\ LabelLine(Stripped(i + 1))) =>
            HasEntry(toc, i + 1, WithoutTrailingPeriods(Stripped(i + 1)))

\* C18 as stated: every separator line directly followed by a label line
\* gives the entry {the label's line number, the label without trailing
\* periods}, and every line that wraps a label between two runs of three or
\* more dashes gives the entry {its own line number, the label}.
C18_TocEveryLabel ==
    TocDone =>
        /\ ImplicitLabels(result.result_out_toc)
        /\ \A i \in 1..Len(OutLines) :
              WrappedLabel(Stripped(i)) # <<>> =>
                  HasEntry(result.result_out_toc, i, WrappedLabel(Stripped(i)))

\* C18 (amended): as stated, for the wrapped labels that begin with a letter
\* of A-Z, a-z and have two or more characters.
C18_TocLetterLabels ==
    TocDone =>
        /\ ImplicitLabels(result.result_out_toc)
        /\ \A i \in 1..Len(OutLines) :
              LET label == WrappedLabel(Stripped(i)) IN
              (Len(label) >= 2 /\ label[1] \in Letters) =>
                  HasEntry(result.result_out_toc, i, label)

\* A separator, its label with trailing periods, and a wrapped label.
C18_Witness ==
    /\ TocDone
    /\ Len(OutLines) = 3
    /\ result.result_out_toc =
          << [line |-> 2, section |-> <<"S", "I">>],
             [line |-> 3, section |-> <<"A", "b">>] >>

ToolCalled(name) == pc = "tools" /\ executed # <<>> /\ Last(executed).tool = name

\* C19: execute_phreeqc first checks that the binary and the database are
\* files: when one is missing it returns the matching error, changes no
\* file and makes no access (no validation of input_path, no listing, no
\* process); a result that carries a return code comes from a run with both
\* present, has ok true exactly when the code is 0, and carries stdout,
\* stderr, output_files and the table of contents whatever the code.
C19_PreconditionsFirst ==
    [][ (pc = "tools" /\ step' = step + 1 /\ executed'[1].tool = "execute_phreeqc") =>
           /\ ~isfile(fs, PHREEQC_BIN) =>
                 /\ result' = Error(<<"PHREEQC binary not found">>)
                 /\ fs' = fs
                 /\ accessed' = {}
           /\ (isfile(fs, PHREEQC_BIN) /\ ~isfile(fs, DEFAULT_DB)) =>
                 /\ result' = Error(<<"PHREEQC database not found">>)
                 /\ fs' = fs
                 /\ accessed' = {}
           /\ ~Raised(result')
           /\ (\E a \in accessed' : a.op = "exec") <=> "returncode" \in DOMAIN result'
           /\ "returncode" \in DOMAIN result' =>
                 /\ isfile(fs, PHREEQC_BIN)
                 /\ isfile(fs, DEFAULT_DB)
                 /\ result'.ok = (result'.returncode = 0)
                 /\ {"stdout", "stderr", "output_files", "result_out_toc"}
                        \subseteq DOMAIN result'
                 /\ result'.result_out_toc =
                        build_toc(fs', Append(dirname(validate_path(allowed_root,
                            executed'[1].args["input_path"]).path), "result.out"))
      ]_vars

\* The binary is there but not the database, and the supplied path lies
\* outside the root: the database error is what comes back.
C19_Witness ==
    /\ ToolCalled("execute_phreeqc")
    /\ isfile(fs, PHREEQC_BIN)
    /\ ~isfile(fs, DEFAULT_DB)
    /\ allowed_root # <<>>
    /\ validate_path(allowed_root, Last(executed).args["input_path"]).raised
    /\ result = Error(<<"PHREEQC database not found">>)
    /\ accessed = {}

\* The worker processes with a run in flight.
InFlight(ws) == {w \in DOMAIN ws : ws[w].row # <<>>}

\* C20: in the batch harness, a run in flight has as root the workspace of
\* its own question, every tool invocation of the run was validated against
\* that root, two runs in flight never have the same root, every file
\* written lies under the workspace of a submitted question, and no step
\* (another worker setting its root included) changes the root of a run
\* that stays in flight.
C20_OwnRootPerRun ==
    [][ /\ \A w \in InFlight(workers') :
              /\ workers'[w].allowed_root = <<question_workspace(workers'[w].row[1])>>
              /\ workers'[w].validated \subseteq {workers'[w].allowed_root}
              /\ futures'[workers'[w].row[1]] = "running"
        /\ \A v, w \in InFlight(workers') :
              v # w => workers'[v].allowed_root # workers'[w].allowed_root
        /\ \A w \in InFlight(workers) \cap InFlight(workers') :
              workers'[w].row = workers[w].row =>
                  workers'[w].allowed_root = workers[w].allowed_root
        /\ \A a \in accessed' :
              a.op = "write" =>
                  \E idx \in DOMAIN futures :
                      a.loc = Append(question_workspace(idx), "final_answer.txt")
      ]_vars

\* Two runs are in flight in two processes and both have written their
\* answer file.
C20_Witness ==
    /\ pc = "batch"
    /\ Cardinality(InFlight(workers)) >= 2
    /\ \A w \in InFlight(workers) : workers[w].calls >= 1
    /\ \E idx \in DOMAIN futures : futures[idx] = "done"
    /\ Cardinality({a \in accessed : a.op = "write"}) = 3

\* The parameters attribute of a tool object ({} when absent) and the
\* parameters of the declaration built for it.
DeclaredParams(i) ==
    IF "parameters" \in DOMAIN tool_objs[i] THEN tool_objs[i].parameters ELSE <<>>
SpecParams(i) == Get(Get(tool_specs[i], "function")[1], "parameters")[1]

\* A mapping already in schema form has the keys type, properties, required.
SchemaForm(params) == Keys(params) = <<"type", "properties", "required">>

\* The schema form of a flat mapping: an object whose properties are the
\* parameters, each a string with its description, all of them required.
Normalised(params, sp) ==
    /\ Keys(sp) = <<"type", "properties", "required">>
    /\ Get(sp, "type") = <<"object">>
    /\ Get(sp, "required")[1] = Keys(params)
    /\ LET properties == Get(sp, "properties")[1] IN
       /\ Keys(properties) = Keys(params)
       /\ \A j \in 1..Len(params) :
             properties[j][2] = << <<"type", "string">>, <<"description", params[j][2]>> >>

\* C21: every flat mapping, whatever its parameter names, is declared in
\* schema form with every parameter a required string property carrying its
\* description; a mapping already in schema form is passed through unchanged.
C21_FlatFormNormalised ==
    (pc = "decl" /\ tool_specs # <<>>) =>
        \A i \in 1..Len(tool_objs) :
            /\ Keys(tool_specs[i]) = <<"type", "function">>
            /\ Get(Get(tool_specs[i], "function")[1], "name") = <<tool_objs[i].name>>
            /\ IF SchemaForm(DeclaredParams(i))
               THEN SpecParams(i) = DeclaredParams(i)
               ELSE Normalised(DeclaredParams(i), SpecParams(i))

\* The messages this run has appended: one per assistant record and one per
\* tool record of its audit log, at the end of the conversation.
AppendedFrom ==
    Len(messages) + 1
    - Cardinality({i \in 1..Len(log) : log[i].action \in {"assistant", "tool"}})

AtQueryOrReturn == pc \in {"query", "calling", "sleeping", "returned"}

\* C22: at every model query and at every return, the appended messages are
\* (assistant with exactly one call, tool message with that call's id)
\* pairs, optionally ended by one assistant message without a call.
C22_WellPaired ==
    AtQueryOrReturn =>
        /\ AppendedFrom > 1
        /\ \A i \in AppendedFrom..Len(messages) :
              /\ IsAssistant(messages[i]) \/ IsTool(messages[i])
              /\ IsTool(messages[i]) =>
                    /\ i > AppendedFrom
                    /\ IsAssistant(messages[i - 1])
                    /\ HasCall(messages[i - 1])
                    /\ Len(messages[i - 1].tool_calls) = 1
                    /\ messages[i].tool_call_id = messages[i - 1].tool_calls[1].id
              /\ (IsAssistant(messages[i]) /\ HasCall(messages[i])) =>
                    /\ i < Len(messages)
                    /\ IsTool(messages[i + 1])
              /\ (IsAssistant(messages[i]) /\ ~HasCall(messages[i])) =>
                    /\ i = Len(messages)
                    /\ pc = "returned"

\* A run returned after a round with a tool call (of a reply proposing two)
\* and a final answer.
C22_Witness ==
    /\ pc = "returned"
    /\ Len(messages) - AppendedFrom + 1 = 3
    /\ IsTool(messages[Len(messages) - 1])
    /\ ~HasCall(Last(messages))
    /\ \E i \in 1..Len(log) : log[i].action = "assistant" /\ log[i].tool_calls # <<>>

\* The audit records of a kind.
Of(action) == {i \in 1..Len(log) : log[i].action = action}

\* The index of the last record before the rounds: run_start or user.
Header == IF Len(log) >= 2 /\ log[2].action = "user" THEN 2 ELSE 1

\* The shape of the audit log written so far.
LogShape ==
    log # <<>> =>
        /\ Of("run_start") = {1}
        /\ Of("user") \subseteq {2}
        /\ Of("run_end") \subseteq {Len(log)}
        /\ Ended <=> Of("run_end") # {}
        /\ \A i \in (Header + 1)..Len(log) :
              /\ log[i].action \in {"assistant", "tool", "run_end"}
              /\ log[i].action = "assistant" =>
                    /\ log[i].step = 1 + Cardinality({j \in Of("assistant") : j < i})
                    /\ i > Header + 1 => log[i - 1].action = "tool"
                    /\ IF log[i].tool_calls # <<>>
                       THEN IF i = Len(log)
                            THEN InRound /\ step = log[i].step
                            ELSE /\ log[i + 1].action = "tool"
                                 /\ log[i + 1].step = log[i].step
                       ELSE /\ i + 1 = Len(log)
                            /\ log[i + 1].action = "run_end"
              /\ log[i].action = "tool" =>
                    /\ log[i - 1].action = "assistant"
                    /\ log[i - 1].step = log[i].step
                    /\ log[i - 1].tool_calls # <<>>
                    /\ log[i].tool = log[i - 1].tool_calls[1].name
        /\ \A s \in 1..step : Cardinality(Events("assistant", s)) <= 1
        \* one tool event per executed call, once its round is over
        /\ \A k \in 1..Len(executed) :
              IF pc \in {"tool", "append"} /\ executed[k].step = step
              THEN Events("tool", executed[k].step) = {}
              ELSE Cardinality(Events("tool", executed[k].step)) = 1
        /\ \A k, l \in 1..Len(executed) : executed[k].step = executed[l].step => k = l
        \* the tool message of every tool event is in the conversation
        /\ Cardinality(Of("tool")) <= Cardinality(ToolMessages)
        /\ \A i \in Of("tool") :
              \E m \in ToolMessages :
                  /\ messages[m].content = json_dumps(log[i].result)
                  /\ messages[m].tool_call_id = log[i - 1].tool_calls[1].id
                  /\ Cardinality({n \in ToolMessages : n <= m})
                        = Cardinality({j \in Of("tool") : j <= i})

\* C23: the audit log only grows by appending, nothing is written after
\* run_end, and it always has the shape run_start, at most one user record,
\* then for rounds 1, 2, ... an assistant record and (when the reply had a
\* tool call) a tool record of the same step, and one run_end at the end;
\* every executed tool call has one tool record, written with its tool
\* message already in the conversation.
C23_AuditLogShape ==
    [][ /\ IsPrefix(log, log')
        /\ Of("run_end") # {} => log' = log
        /\ LogShape'
      ]_vars

\* An ended run whose log is run_start, user, assistant 1, tool 1,
\* assistant 2, run_end, the tool call having been executed.
C23_Witness ==
    /\ pc = "returned"
    /\ Len(log) = 6
    /\ [i \in 1..6 |-> log[i].action]
          = <<"run_start", "user", "assistant", "tool", "assistant", "run_end">>
    /\ log[5].step = 2
    /\ Len(executed) = 1

\* An entry for a line that wraps a label between two runs of dashes.
WrappedEntry(e) ==
    LET label == WrappedLabel(Stripped(e.line)) IN
    /\ Len(label) >= 2
    /\ label[1] \in Letters
    /\ e.section = label

\* An entry for a text line directly below a separator line.
ImplicitEntry(e) ==
    /\ e.line >= 2
    /\ DashOnly(Stripped(e.line - 1))
    /\ Stripped(e.line) # <<>>
    /\ ~DashOnly(Stripped(e.line))
    /\ e.section = WithoutTrailingPeriods(Stripped(e.line))

\* C24: the table of contents lists lines of the file in strictly
\* increasing order, and each entry is a wrapped label or a text line whose
\* preceding line, with no blank or other line in between, is a separator;
\* so a separator gives at most one entry and a text line that does not
\* directly follow a separator gives none.
C24_OnlyRecognisedHeaders ==
    TocDone =>
        LET toc == result.result_out_toc IN
        /\ \A k \in 1..Len(toc) :
              /\ toc[k].line \in 1..Len(OutLines)
              /\ k > 1 => toc[k - 1].line < toc[k].line
              /\ WrappedEntry(toc[k]) \/ ImplicitEntry(toc[k])

\* The run_start records of the file at a location.
RunStarts(loc) ==
    {i \in 1..Len(fs[loc].content) : fs[loc].content[i].action = "run_start"}

\* C25: two different runs that were given no log path write to different
\* files, whatever their start times, and no audit file holds more than one
\* run_start record.
C25_OneFilePerRun ==
    pc = "logs" =>
        /\ \A r, s \in 1..Len(log_paths) : r # s => log_paths[r] # log_paths[s]
        /\ \A r \in 1..Len(log_paths) : Cardinality(RunStarts(log_paths[r])) = 1

\* C26: every run ends, after at most max_steps rounds and 3 * max_steps
\* model-service calls, with at most 3 calls and 2 backoff delays in a
\* round; every round starts at attempt 1 with no delay taken, whatever
\* failed in the rounds before it.
C26_Terminates ==
    /\ [](/\ step <= max_steps
          /\ ncalls <= 3 * max_steps
          /\ attempt <= 3
          /\ Len(delays) <= 2
          /\ Len(delays) <= attempt
          /\ step >= 1 => ncalls <= 3 * (step - 1) + attempt
          /\ pc = "calling" => ncalls >= step)
    /\ [][ /\ step' \in {step, step + 1}
           /\ step' = step + 1 => pc' = "query" /\ attempt' = 1 /\ delays' = <<>>
           /\ step' = step => attempt' \in {attempt, attempt + 1}
         ]_vars
    /\ <>Ended

\* Round 1 recovered from two transient failures and round 2 is at its
\* third attempt, after two delays of its own.
C26_Witness ==
    /\ pc = "calling"
    /\ step = 2
    /\ attempt = 3
    /\ ncalls = 6
    /\ delays = <<2, 4>>

\* The configured root is unset, or is neither work_space nor below it.
RootOutsideWorkspace ==
    \/ allowed_root = <<>>
    \/ ~IsPrefix(realpath(fs, WORKSPACE_ROOT), realpath(fs, abspath(allowed_root[1])))

\* C27: with a root that is not work_space or a directory below it,
\* run_agent raises a configuration error and has created no client,
\* written no audit record, queried no model, invoked no tool and changed
\* neither the conversation nor the filesystem; and every location a tool
\* of a started run touches lies inside work_space.
C27_ConfinedToWorkspace ==
    [][ /\ (pc = "start" /\ RootOutsideWorkspace) =>
              /\ pc' = "raised"
              /\ retval'.kind = "raise"
              /\ retval'.exc.type = "RuntimeError"
              /\ UNCHANGED <<messages, fs, log, ncalls, executed, accessed, tool_specs>>
        /\ \A a \in accessed' : IsPrefix(realpath(fs', WORKSPACE_ROOT), a.loc)
      ]_vars

====
